---- MODULE Spec2Model ----
(***************************************************************************)
(* A model of k_archives: the MAR stream cipher (mar.rs), the virtual     *)
(* file KFile and the archive index KArchive (common.rs), and the entry   *)
(* parsers (qar.rs, bar.rs, d2.rs, mar.rs).                               *)
(*                                                                         *)
(* A u32 is a pair <<hi, lo>> of 16-bit halves, so that 32-bit wrapping   *)
(* arithmetic and rotations are exact.  An Option is a sequence: <<>> is  *)
(* None and <<v>> is Some(v).                                             *)
(***************************************************************************)
EXTENDS Integers, Sequences, FiniteSets, TLC

VARIABLES
    params,      \* [key, iv, seed, size]: what the cipher and its input were made from
    cipher,      \* MarCipher under test (cipher specification)
    reference,   \* reference_crypt(key, iv, input), computed once like buf_reference
                 \* and kept at the positions a window can cover
    out,         \* bytes crypted since the last seek (the current window)
    winStart,    \* position the current window starts at
    fed,         \* index of the next input byte handed to crypt
    fresh,       \* TRUE while no seek has been made on the cipher
    nchunks,     \* non-empty crypt calls in the current window: 0, 1, or 2 for more
    kfile,       \* the KFile under test (virtual file specification)
    lastop,      \* the last operation on kfile: its arguments and what it returned
    panicked,    \* TRUE once an operation on kfile has panicked
    allok,       \* TRUE while every operation on kfile has succeeded
    archive,     \* KArchive::archives, the backings in order (archive specification)
    answer,      \* the last query on archive: its arguments and what it returned
    input,       \* the archive file handed to a parser (parser specification)
    parsed,      \* what the parser made of input
    fs,          \* the files on disk, by name (mount specification)
    mounted,     \* the last mount: its path and what it returned
    pair,        \* two KFiles opened from one archive (independence specification)
    probe,       \* the latency probe: its file, clock and result
    guess,       \* guess_contents_folder: the listed paths and what it returned
    chain,       \* a chain of subkeys: its key, its last two subkeys and the way back
    run          \* a mount in progress: the files, the calls on the stack, the result

cipherVars == <<params, cipher, reference, out, winStart, fed, fresh, nchunks>>
kfileVars == <<kfile, lastop, panicked, allok>>
archiveVars == <<archive, answer>>
parserVars == <<input, parsed>>
mountVars == <<fs, mounted>>
moreVars == <<mountVars, pair, probe, guess, chain, run>>
baseVars == <<cipherVars, kfileVars, archiveVars, parserVars>>
vars == <<baseVars, moreVars>>

\* the variables of the other specifications, at rest
CipherIdle ==
    /\ params = <<>> /\ cipher = <<>> /\ reference = <<>> /\ out = <<>>
    /\ winStart = 0 /\ fed = 0 /\ fresh = TRUE /\ nchunks = 0
KFileIdle == kfile = <<>> /\ lastop = [op |-> "none"] /\ panicked = FALSE /\ allok = TRUE
ArchiveIdle == archive = <<>> /\ answer = [op |-> "none"]
ParserIdle == input = [format |-> "none"] /\ parsed = [status |-> "none"]
MountIdle == fs = <<>> /\ mounted = <<>>
MoreIdle ==
    MountIdle /\ pair = <<>> /\ probe = <<>> /\ guess = <<>> /\ chain = <<>> /\ run = <<>>

(***************************************************************************)
(* Bounds of the model.                                                    *)
(***************************************************************************)
\* entry sizes 0..MaxSize are explored exhaustively
MaxSize == 7
\* longest window crypted after a seek (test_seek uses 0x10)
MaxWindow == 8
\* one entry size beyond the first checkpoint, with a partial final block
BigSize == 4102

None == <<>>
Some(v) == <<v>>

Min(a, b) == IF a < b THEN a ELSE b
Max(a, b) == IF a > b THEN a ELSE b

(***************************************************************************)
(* 32-bit and 8-bit arithmetic.                                            *)
(***************************************************************************)
Two16 == 2 ^ 16
Two11 == 2 ^ 11

\* u32::wrapping_add
wrapping_add(a, b) ==
    LET lo == a[2] + b[2]
        hi == a[1] + b[1] + (lo \div Two16)
    IN  <<hi % Two16, lo % Two16>>

\* u32::wrapping_sub
wrapping_sub(a, b) ==
    LET lo == a[2] - b[2]
        borrow == IF lo < 0 THEN 1 ELSE 0
        hi == a[1] - b[1] - borrow
    IN  <<(hi + Two16) % Two16, (lo + Two16) % Two16>>

\* u32::rotate_left(5): bit i of the result is bit (i - 5) mod 32 of x
rotate_left(x) ==
    <<(x[1] % Two11) * 32 + (x[2] \div Two11), (x[2] % Two11) * 32 + (x[1] \div Two11)>>

\* u32::rotate_right(5): bit i of the result is bit (i + 5) mod 32 of x
rotate_right(x) ==
    <<(x[2] % 32) * Two11 + (x[1] \div 32), (x[1] % 32) * Two11 + (x[2] \div 32)>>

\* u32::to_le_bytes
to_le_bytes(x) == <<x[2] % 256, x[2] \div 256, x[1] % 256, x[1] \div 256>>

\* u32::from_le_bytes
from_le_bytes(b) == <<b[3] + 256 * b[4], b[1] + 256 * b[2]>>

RECURSIVE XorBits(_, _, _)
XorBits(a, b, n) ==
    IF n = 0 THEN 0
    ELSE (((a % 2) + (b % 2)) % 2) + 2 * XorBits(a \div 2, b \div 2, n - 1)

\* u8 ^ u8
Xor8(a, b) == XorBits(a, b, 8)

\* u16 as u32
as_u32(v) == <<v \div Two16, v % Two16>>

(***************************************************************************)
(* The two checksums of crc_any that mar::parse digests a name with, bit   *)
(* by bit: both are reflected, start from all ones and are complemented.   *)
(***************************************************************************)
\* CRC-32: the reversed polynomial 0xEDB88320
crc32_shift(crc) ==
    IF crc[2] % 2 = 0 THEN <<crc[1] \div 2, (crc[1] % 2) * 32768 + crc[2] \div 2>>
    ELSE <<XorBits(crc[1] \div 2, 60856, 16),
           XorBits((crc[1] % 2) * 32768 + crc[2] \div 2, 33568, 16)>>

RECURSIVE crc32_bits(_, _)
crc32_bits(crc, n) == IF n = 0 THEN crc ELSE crc32_bits(crc32_shift(crc), n - 1)

\* digest, from byte i on; the checksum after each byte is computed before
\* the next byte is read
crc32_byte(crc, byte) == crc32_bits(<<crc[1], XorBits(crc[2], byte, 16)>>, 8)

RECURSIVE crc32_digest(_, _, _)
crc32_digest(crc, bytes, i) ==
    IF i > Len(bytes) THEN crc
    ELSE CHOOSE r \in {crc32_digest(c, bytes, i + 1) : c \in {crc32_byte(crc, bytes[i])}} : TRUE

crc32_final(crc) == <<65535 - crc[1], 65535 - crc[2]>>

\* CRCu32::crc32(), digest and get_crc
crc32(bytes) == crc32_final(crc32_digest(<<65535, 65535>>, bytes, 1))

\* CRC-16/X25: the reversed polynomial 0x8408
crc16_shift(crc) == IF crc % 2 = 0 THEN crc \div 2 ELSE XorBits(crc \div 2, 33800, 16)

RECURSIVE crc16_bits(_, _)
crc16_bits(crc, n) == IF n = 0 THEN crc ELSE crc16_bits(crc16_shift(crc), n - 1)

crc16_byte(crc, byte) == crc16_bits(XorBits(crc, byte, 16), 8)

RECURSIVE crc16_digest(_, _, _)
crc16_digest(crc, bytes, i) ==
    IF i > Len(bytes) THEN crc
    ELSE CHOOSE r \in {crc16_digest(c, bytes, i + 1) : c \in {crc16_byte(crc, bytes[i])}} : TRUE

\* CRCu16::crc16_x25(), digest and get_crc
crc16_x25(bytes) == 65535 - crc16_digest(65535, bytes, 1)

\* u64::saturating_add_signed, for operands far below u64::MAX
saturating_add_signed(u, x) == IF u + x < 0 THEN 0 ELSE u + x

(***************************************************************************)
(* MarKeystream and its iterator (mar.rs).                                 *)
(***************************************************************************)
\* blocks whose offset is a multiple of this are checkpointed
CheckpointInterval == 4096

\* MarKeystream::next_subkey
next_subkey(subkey, key) == rotate_left(wrapping_add(key, subkey))

\* a way back that leaves the key out
prev_subkey_unkeyed(subkey, key) == rotate_right(subkey)

\* MarKeystream::prev_subkey
prev_subkey(subkey, key) == wrapping_sub(rotate_right(subkey), key)

\* MarKeystream::new
MarKeystream_new(key, iv) ==
    [key |-> key, subkeys |-> (0 :> next_subkey(iv, key))]

\* MarKeystream::add_checkpoint: entry(pos).or_insert(subkey)
add_checkpoint(ks, pos, subkey) ==
    IF pos \in DOMAIN ks.subkeys THEN ks
    ELSE [ks EXCEPT !.subkeys = (pos :> subkey) @@ ks.subkeys]

\* Iterator::next for MarKeystreamIterator: the iterator after the call
iterator_next(it) ==
    [it EXCEPT !.previous_subkey = Some(it.subkey),
               !.subkey = next_subkey(it.subkey, it.key)]

\* rewind as a slip would leave it: the iterator is not moved back
rewind_missing(it) == it

\* MarKeystreamIterator::rewind
rewind(it) ==
    IF it.previous_subkey # None
    THEN [it EXCEPT !.subkey = it.previous_subkey[1],
                    !.previous_subkey = Some(prev_subkey(it.previous_subkey[1], it.key))]
    ELSE it

\* the forward walk as a slip would have it: the checkpoint stored for the new
\* position is the subkey of the block before it
forward_step_stale(w, key) ==
    LET s == next_subkey(w.subkey, key)
        p == w.pos + 4
    IN  IF p % CheckpointInterval = 0
        THEN [subkeys |-> (p :> w.subkey) @@ w.subkeys, subkey |-> s, pos |-> p,
              panic |-> w.panic \/ p \in DOMAIN w.subkeys]
        ELSE [w EXCEPT !.subkey = s, !.pos = p]

\* One pass of the loop `while nearest_pos_low < block_start` of get_keystream.
\* w = [subkeys, subkey, pos, panic]; the insert's assert! sets panic.
forward_step(w, key) ==
    LET s == next_subkey(w.subkey, key)
        p == w.pos + 4
    IN  IF p % CheckpointInterval = 0
        THEN [subkeys |-> (p :> s) @@ w.subkeys, subkey |-> s, pos |-> p,
              panic |-> w.panic \/ p \in DOMAIN w.subkeys]
        ELSE [w EXCEPT !.subkey = s, !.pos = p]

\* n passes of that loop; the range is halved to keep the evaluation shallow
RECURSIVE walk_forward(_, _, _)
\* the second half of a range, run once the first half's state is computed
walk_forward_rest(half, key, n) ==
    IF half.pos >= 0 THEN walk_forward(half, key, n) ELSE half

walk_forward(w, key, n) ==
    IF n = 0 THEN w
    ELSE IF n = 1 THEN forward_step(w, key)
    ELSE walk_forward_rest(walk_forward(w, key, n \div 2), key, n - (n \div 2))

\* One pass of the loop `while nearest_pos_high > block_start` of get_keystream.
backward_step(w, key) ==
    LET s == prev_subkey(w.subkey, key)
        p == w.pos - 4
    IN  IF p % CheckpointInterval = 0
        THEN [subkeys |-> (p :> s) @@ w.subkeys, subkey |-> s, pos |-> p,
              panic |-> w.panic \/ p \in DOMAIN w.subkeys]
        ELSE [w EXCEPT !.subkey = s, !.pos = p]

RECURSIVE walk_backward(_, _, _)
\* the second half of a range, run once the first half's state is computed
walk_backward_rest(half, key, n) ==
    IF half.pos >= 0 THEN walk_backward(half, key, n) ELSE half

walk_backward(w, key, n) ==
    IF n = 0 THEN w
    ELSE IF n = 1 THEN backward_step(w, key)
    ELSE walk_backward_rest(walk_backward(w, key, n \div 2), key, n - (n \div 2))

SetMax(S) == CHOOSE x \in S : \A y \in S : y <= x
SetMin(S) == CHOOSE x \in S : \A y \in S : x <= y

\* The value get_keystream returns, from the walk's last state w
keystream_at(ks, w) ==
    [ks |-> [ks EXCEPT !.subkeys = w.subkeys],
     it |-> [key |-> ks.key, subkey |-> w.subkey, previous_subkey |-> None],
     panic |-> w.panic]

\* MarKeystream::get_keystream: [ks, it, panic], the keystream with the
\* checkpoints added on the way and the iterator starting at pos's block;
\* panic is set when one of the function's assert!s fails.
get_keystream(ks, pos) ==
    LET block_start == pos - (pos % 4)
        keys == DOMAIN ks.subkeys
        lows == {p \in keys : p <= block_start /\ p > 0}
        highs == {p \in keys : p > block_start}
        nearest_pos_low == IF lows = {} THEN 0 ELSE SetMax(lows)
        nearest_pos_high == IF highs = {} THEN None ELSE Some(SetMin(highs))
        asserts == nearest_pos_low % 4 = 0
                   /\ (nearest_pos_high = None \/ nearest_pos_high[1] % 4 = 0)
        start(p, bad) == [subkeys |-> ks.subkeys, subkey |-> ks.subkeys[p], pos |-> p,
                          panic |-> bad]
    IN  keystream_at(ks,
             IF block_start \in keys
             THEN start(block_start, FALSE)
             ELSE IF block_start - 4 \in keys
             THEN [start(block_start - 4, FALSE)
                     EXCEPT !.subkey = next_subkey(ks.subkeys[block_start - 4], ks.key)]
             ELSE IF nearest_pos_high = None
                     \/ nearest_pos_high[1] - block_start > block_start - nearest_pos_low
             THEN walk_forward(start(nearest_pos_low, ~asserts), ks.key,
                               (block_start - nearest_pos_low) \div 4)
             ELSE walk_backward(start(nearest_pos_high[1], ~asserts), ks.key,
                                (nearest_pos_high[1] - block_start) \div 4))

(***************************************************************************)
(* MarCipher (mar.rs).                                                     *)
(***************************************************************************)
\* MarCipher::new
MarCipher_new(key, iv, size) ==
    [keystream |-> MarKeystream_new(key, iv), current_iterator |-> None,
     pos |-> 0, size |-> size]

RECURSIVE XorFold(_, _, _)
XorFold(d, key_block, n) ==
    IF n = 0 THEN d ELSE Xor8(XorFold(d, key_block, n - 1), key_block[n])

\* the last-block loop as a uniform cipher would have it: one key byte only
final_block_first_only(d, key_block, n) == Xor8(d, key_block[1])

\* The last-block loop of crypt: data[0] ^= k for the first n bytes of the block
final_block(d, key_block, n) == XorFold(d, key_block, Min(n, 4))

\* The loop `for key_block in key_iterator` of crypt, from the slice data[i..].
\* r = [c, data, overflow]; overflow is set when `self.size - self.pos`
\* underflows, and c and data are then what a build without overflow checks
\* leaves (the count wraps to a huge usize, so all 4 key bytes are taken).
RECURSIVE crypt_loop(_, _, _)
crypt_loop(c, data, i) ==
    LET it == c.current_iterator[1]
        key_block == to_le_bytes(it.subkey)
        c1 == [c EXCEPT !.current_iterator = Some(iterator_next(it))]
        skip == c.pos % 4
        n == Min(4 - skip, Len(data) - i + 1)
        c2 == IF c.pos % CheckpointInterval = 0
              THEN [c1 EXCEPT !.keystream = add_checkpoint(c1.keystream, c.pos,
                                                           from_le_bytes(key_block))]
              ELSE c1
        c3 == [c2 EXCEPT !.pos = c.pos + n]
        xored == [j \in 1..Len(data) |->
                    IF j >= i /\ j < i + n
                    THEN Xor8(data[j], key_block[skip + (j - i) + 1])
                    ELSE data[j]]
    IN  IF c.pos % 4 = 0 /\ c.pos + 4 > c.size
        THEN [c |-> [c1 EXCEPT !.pos = c.size],
              data |-> [data EXCEPT ![i] =
                          final_block(data[i], key_block,
                                      IF c.pos > c.size THEN 4 ELSE c.size - c.pos)],
              overflow |-> c.pos > c.size, panic |-> FALSE]
        ELSE IF i + n > Len(data)
        THEN [c |-> c3, data |-> xored, overflow |-> FALSE, panic |-> FALSE]
        ELSE crypt_loop(c3, xored, i + n)

\* crypt once the iterator is chosen: st = [ks, it, panic]
crypt_with(c, data, st) ==
    [crypt_loop([c EXCEPT !.keystream = st.ks, !.current_iterator = Some(st.it)], data, 1)
        EXCEPT !.panic = st.panic]

\* MarCipher::crypt: [c, data, overflow, panic]
crypt(c, data) ==
    IF c.pos = c.size \/ data = <<>>
    THEN [c |-> c, data |-> data, overflow |-> FALSE, panic |-> FALSE]
    ELSE crypt_with(c, data,
            IF c.current_iterator # None
            THEN [ks |-> c.keystream,
                  it |-> IF c.pos % 4 # 0
                         THEN rewind(c.current_iterator[1])
                         ELSE c.current_iterator[1],
                  panic |-> FALSE]
            ELSE get_keystream(c.keystream, c.pos))

\* MarCipher::seek_internal
seek_internal(c, new_pos) ==
    [c EXCEPT !.current_iterator = None, !.pos = Min(c.size, new_pos)]

\* impl Seek for MarCipher: [ok, c, ret]; a SeekFrom is [kind, n]
MarCipher_seek(c, from) ==
    LET done(c2) == [ok |-> TRUE, c |-> c2, ret |-> c2.pos]
        err == [ok |-> FALSE, c |-> c, ret |-> "InvalidInput"]
    IN  CASE from.kind = "Start" -> done(seek_internal(c, from.n))
          [] from.kind = "End" ->
                IF from.n < 0 /\ -from.n > c.size THEN err
                ELSE done(seek_internal(c, saturating_add_signed(c.size, from.n)))
          [] from.kind = "Current" ->
                IF from.n < 0 /\ -from.n > c.pos THEN err
                ELSE done(seek_internal(c, saturating_add_signed(c.pos, from.n)))

(***************************************************************************)
(* tests::reference_crypt (mar.rs), the encoder the cipher must agree with *)
(***************************************************************************)
\* One pass of the first while loop; st = [data, idx, k, brk]
reference_step(st, key) ==
    LET k == next_subkey(st.k, key)
        b == to_le_bytes(k)
        idx == st.idx
    IN  IF st.brk \/ idx >= Len(st.data) THEN st
        ELSE IF idx + 4 > Len(st.data) THEN [st EXCEPT !.k = k, !.brk = TRUE]
        ELSE [data |-> [st.data EXCEPT ![idx + 1] = Xor8(@, b[1]),
                                       ![idx + 2] = Xor8(@, b[2]),
                                       ![idx + 3] = Xor8(@, b[3]),
                                       ![idx + 4] = Xor8(@, b[4])],
              idx |-> idx + 4, k |-> k, brk |-> FALSE]

\* n passes of the first while loop, the range halved
RECURSIVE reference_blocks(_, _, _)
\* the second half of a range, run once the first half's state is computed
reference_blocks_rest(half, key, n) ==
    IF half.idx >= 0 THEN reference_blocks(half, key, n) ELSE half

reference_blocks(st, key, n) ==
    IF n = 0 THEN st
    ELSE IF n = 1 THEN reference_step(st, key)
    ELSE reference_blocks_rest(reference_blocks(st, key, n \div 2), key, n - (n \div 2))

\* The second while loop: data[idx] ^= byte j of k while idx + j < len
RECURSIVE reference_tail(_, _, _, _)
reference_tail(data, idx, k, j) ==
    IF idx + j < Len(data)
    THEN reference_tail([data EXCEPT ![idx + 1] = Xor8(data[idx + 1], to_le_bytes(k)[j + 1])],
                        idx, k, j + 1)
    ELSE data

reference_finish(st) == reference_tail(st.data, st.idx, st.k, 0)

reference_crypt(key, iv, data) ==
    reference_finish(reference_blocks([data |-> data, idx |-> 0, k |-> iv, brk |-> FALSE],
                                      key, (Len(data) + 3) \div 4))

(***************************************************************************)
(* The cipher driven as mar.rs's tests drive it: a buffer `input` of      *)
(* `size` bytes, crypted window by window, with seeks in between.          *)
(***************************************************************************)
\* (key, iv) pairs: key = crc16 * 3 is at most 0x2FFFD, iv is any u32
KeyIvs ==
    { [key |-> <<1, 9029>>, iv |-> <<39612, 57072>>],
      [key |-> <<2, 65533>>, iv |-> <<65535, 65535>>] }

Seeds == {0, 1}

\* the input buffer: size bytes, a different sequence for each seed
DataByte(seed, i) == (i * 37 + seed * 101 + 11) % 256
Data(seed, size) == [i \in 1..size |-> DataByte(seed, i)]

Sizes == (0..MaxSize) \cup {BigSize}

\* seek targets: every position of a small buffer and one past its end,
\* positions around the first checkpoint and half way to it, and the final
\* partial block of the big buffer
FarPositions ==
    { CheckpointInterval + d : d \in {-2052, -2048, -16, -2, 0, 2, 4} }
        \cup {BigSize - 2, BigSize - 1}

SeekTargets(size) ==
    (0..(MaxSize + 1)) \cup {q \in FarPositions : q <= size}

SeekArgs(c) ==
    [kind : {"Start"}, n : SeekTargets(c.size)]
    \cup [kind : {"End"}, n : {q - c.size : q \in SeekTargets(c.size)} \cup {0 - c.size - 1}]
    \cup [kind : {"Current"},
          n : {d \in (-3)..3 : c.pos + d < 0 \/ c.pos + d \in SeekTargets(c.size)}]

\* the positions (1-based) a window of at most MaxWindow bytes can cover
Reach(size) ==
    {i \in 1..size : \E q \in SeekTargets(size) : i > q /\ i <= q + MaxWindow}

\* data[from..from + len] of the input buffer
Input(seed, from, len) == [j \in 1..len |-> DataByte(seed, from + j)]

CipherInit ==
    \E kv \in KeyIvs, size \in Sizes, seed \in Seeds :
        /\ params = [key |-> kv.key, iv |-> kv.iv, seed |-> seed, size |-> size]
        /\ cipher = MarCipher_new(kv.key, kv.iv, size)
        /\ \E buf_reference \in {reference_crypt(kv.key, kv.iv, Data(seed, size))} :
               reference = [i \in Reach(size) |-> buf_reference[i]]
        /\ out = <<>>
        /\ winStart = 0
        /\ fed = 0
        /\ fresh = TRUE
        /\ nchunks = 0
        /\ KFileIdle /\ ArchiveIdle /\ ParserIdle /\ MoreIdle

\* cipher.crypt(&mut buf[fed..fed + len])
Crypt ==
    \E len \in 0..Min(params.size - fed, MaxWindow - Len(out)) :
        \E r \in {crypt(cipher, Input(params.seed, fed, len))} :
            /\ ~r.panic /\ ~r.overflow
            /\ cipher' = r.c
            /\ out' = out \o r.data
            /\ fed' = fed + len
            /\ nchunks' = IF len > 0 THEN Min(nchunks + 1, 2) ELSE nchunks
            /\ UNCHANGED <<params, reference, winStart, fresh, kfileVars, archiveVars, parserVars, moreVars>>

\* cipher.seek(from); the next window starts at the position it returns
CipherSeek ==
    \E from \in SeekArgs(cipher) :
        \E r \in {MarCipher_seek(cipher, from)} :
            IF r.ok
            THEN /\ cipher' = r.c
                 /\ winStart' = r.ret
                 /\ fed' = r.ret
                 /\ out' = <<>>
                 /\ fresh' = FALSE
                 /\ nchunks' = 0
                 /\ UNCHANGED <<params, reference, kfileVars, archiveVars, parserVars, moreVars>>
            ELSE UNCHANGED vars

CipherNext == Crypt \/ CipherSeek

SpecCipher == CipherInit /\ [][CipherNext]_vars

(***************************************************************************)
(* KFile, the virtual file over one entry (common.rs).  The medium works:  *)
(* reads and seeks of the underlying file do not fail with I/O errors.     *)
(***************************************************************************)
\* the bytes of the backing stream
BackingByte(i) == DataByte(0, i)

\* InternalFile::read of `want` bytes: the counts it can return.  A Cursor
\* returns all that is left; a File may return any shorter non-zero count.
InternalFile_read(file, want) ==
    IF file.kind = "Buffer" \/ Min(want, Max(file.len - file.pos, 0)) = 0
    THEN {Min(want, Max(file.len - file.pos, 0))}
    ELSE 1..Min(want, file.len - file.pos)

\* InternalFile::seek: [ok, file]
InternalFile_seek(file, from) ==
    CASE from.kind = "Start" -> [ok |-> TRUE, file |-> [file EXCEPT !.pos = from.n]]
      [] from.kind = "Current" ->
            IF file.pos + from.n < 0 THEN [ok |-> FALSE, file |-> file]
            ELSE [ok |-> TRUE, file |-> [file EXCEPT !.pos = file.pos + from.n]]

\* an open that leaves the reader at the start of the backing
KFile_open_unseeked(name, kind, len, info) ==
    [name |-> name,
     file |-> [kind |-> kind, pos |-> 0, len |-> len],
     info |-> info,
     pos |-> 0]

\* KFile::open: the reader is seeked to info.offset
KFile_open(name, kind, len, info) ==
    [name |-> name,
     file |-> InternalFile_seek([kind |-> kind, pos |-> 0, len |-> len],
                                [kind |-> "Start", n |-> info.offset]).file,
     info |-> info,
     pos |-> 0]

\* reads that ask for the whole buffer, whatever is left of the entry
bytes_to_read_unclamped(n, size, pos) == n

\* usize::min(buf.len(), (self.info.size - self.pos) as usize)
bytes_to_read(n, size, pos) == Min(n, size - pos)

\* the rest of KFile::read once the cipher has crypted the bytes read
read_crypted(kf, ret_val, r) ==
    [kf |-> [kf EXCEPT !.info.cipher = Some(r.c)], ret |-> ret_val, buf |-> r.data,
     overflow |-> r.overflow, panic |-> r.panic]

\* impl Read for KFile, the underlying read returning ret_val bytes:
\* [kf, ret, buf, overflow, panic]
KFile_read(kf, n, ret_val) ==
    IF kf.pos >= kf.info.size
    THEN [kf |-> kf, ret |-> 0, buf |-> <<>>, overflow |-> FALSE, panic |-> FALSE]
    ELSE IF kf.info.cipher = None
    THEN [kf |-> [kf EXCEPT !.file.pos = @ + ret_val, !.pos = @ + ret_val],
          ret |-> ret_val,
          buf |-> [j \in 1..ret_val |-> BackingByte(kf.file.pos + j)],
          overflow |-> FALSE, panic |-> FALSE]
    ELSE read_crypted([kf EXCEPT !.file.pos = @ + ret_val, !.pos = @ + ret_val], ret_val,
                      crypt(kf.info.cipher[1],
                            [j \in 1..ret_val |-> BackingByte(kf.file.pos + j)]))

\* the counts the underlying read of KFile::read can return
KFile_read_counts(kf, n) ==
    IF kf.pos >= kf.info.size THEN {0}
    ELSE InternalFile_read(kf.file, bytes_to_read(n, kf.info.size, kf.pos))

\* the result of a seek once the underlying reader has been moved: r = [ok, file]
seek_moved(kf, r, new_pos) ==
    IF r.ok THEN [ok |-> TRUE, kf |-> [kf EXCEPT !.file = r.file, !.pos = new_pos], ret |-> new_pos]
    ELSE [ok |-> FALSE, kf |-> kf, ret |-> "InvalidInput"]

\* impl Seek for KFile, after the cipher's seek: [ok, kf, ret]
KFile_seek_file(kf, from) ==
    CASE from.kind = "Start" ->
            seek_moved(kf, InternalFile_seek(kf.file, [kind |-> "Start",
                                                       n |-> kf.info.offset + from.n]),
                       from.n)
      [] from.kind = "End" ->
            IF from.n < 0 /\ -from.n > kf.info.size
            THEN [ok |-> FALSE, kf |-> kf, ret |-> "InvalidInput"]
            ELSE seek_moved(kf,
                            InternalFile_seek(kf.file,
                               [kind |-> "Start",
                                n |-> saturating_add_signed(kf.info.offset + kf.info.size,
                                                            from.n)]),
                            saturating_add_signed(kf.info.size, from.n))
      [] from.kind = "Current" ->
            IF from.n < 0 /\ -from.n > kf.pos
            THEN [ok |-> FALSE, kf |-> kf, ret |-> "InvalidInput"]
            ELSE seek_moved(kf, InternalFile_seek(kf.file, from),
                            saturating_add_signed(kf.pos, from.n))

\* the cipher's seek comes first: its error is returned, its new state kept
seek_after_cipher(kf, from, cs) ==
    IF cs.ok THEN KFile_seek_file([kf EXCEPT !.info.cipher = Some(cs.c)], from)
    ELSE [ok |-> FALSE, kf |-> kf, ret |-> cs.ret]

\* impl Seek for KFile: [ok, kf, ret]
KFile_seek(kf, from) ==
    IF kf.info.cipher = None THEN KFile_seek_file(kf, from)
    ELSE seek_after_cipher(kf, from, MarCipher_seek(kf.info.cipher[1], from))

(***************************************************************************)
(* A KFile opened on one entry, then read and seeked in any order.         *)
(***************************************************************************)
\* where an entry's payload starts in its backing
Offsets == {0, 3}

\* the backing stream ends this many bytes after the entry's payload
Slacks == {2}

\* the key and IV of encrypted entries
KFileKeyIvs == {[key |-> <<1, 9029>>, iv |-> <<39612, 57072>>]}

\* logical positions beyond this are not explored
PosLimit == MaxSize + 2

KFileSeekArgs(kf) ==
    [kind : {"Start"}, n : 0..(kf.info.size + 2)]
    \cup [kind : {"End"}, n : (0 - kf.info.size - 1)..2]
    \cup [kind : {"Current"}, n : (-3)..3]

\* the logical position a seek asks for
Target(kf, from) ==
    CASE from.kind = "Start" -> from.n
      [] from.kind = "End" -> kf.info.size + from.n
      [] from.kind = "Current" -> kf.pos + from.n

KFileInit ==
    \E size \in 0..MaxSize, offset \in Offsets, slack \in Slacks,
       kind \in {"RealFile", "Buffer"} :
      \E c \in {None} \cup {Some(MarCipher_new(kv.key, kv.iv, size)) : kv \in KFileKeyIvs} :
        /\ kfile = KFile_open("f", kind, offset + size + slack,
                              [size |-> size, offset |-> offset, cipher |-> c])
        /\ lastop = [op |-> "open"]
        /\ panicked = FALSE
        /\ allok = TRUE
        /\ CipherIdle /\ ArchiveIdle /\ ParserIdle /\ MoreIdle

\* file.read(&mut buf) with buf.len() = n
KFileRead ==
    /\ ~panicked
    /\ \E n \in 0..(MaxSize + 1) :
         \E ret_val \in KFile_read_counts(kfile, n) :
           \E r \in {KFile_read(kfile, n, ret_val)} :
              \/ /\ ~r.panic
                 \* a build without overflow checks goes on with the wrapped count
                 /\ kfile' = r.kf
                 /\ lastop' = [op |-> "read", n |-> n, ret |-> r.ret, buf |-> r.buf,
                               pos |-> kfile.pos, file_pos |-> kfile.file.pos]
                 /\ UNCHANGED <<panicked, allok, cipherVars, archiveVars, parserVars, moreVars>>
              \/ /\ r.panic \/ r.overflow
                 \* a failed assert!, or the subtraction overflow in a checked build
                 /\ panicked' = TRUE
                 /\ allok' = FALSE
                 /\ lastop' = [op |-> "panic"]
                 /\ UNCHANGED <<kfile, cipherVars, archiveVars, parserVars, moreVars>>

\* file.seek(from)
KFileSeek ==
    /\ ~panicked
    /\ \E from \in KFileSeekArgs(kfile) :
         /\ Target(kfile, from) <= PosLimit
         /\ \E r \in {KFile_seek(kfile, from)} :
              /\ kfile' = r.kf
              /\ lastop' = [op |-> "seek", from |-> from, target |-> Target(kfile, from),
                            ok |-> r.ok, ret |-> r.ret, pos |-> kfile.pos]
              /\ allok' = (allok /\ r.ok)
              /\ UNCHANGED <<panicked, cipherVars, archiveVars, parserVars, moreVars>>

KFileNext == KFileRead \/ KFileSeek

SpecKFile == KFileInit /\ [][KFileNext]_vars

(***************************************************************************)
(* KArchive, the ordered list of backings (common.rs).                     *)
(***************************************************************************)
MaxBackings == 2

\* KArchive::init_empty
init_empty == <<>>

\* KArchive::new
KArchive_new(path, files, buffer) ==
    <<[path |-> path, files |-> files, buffer |-> buffer]>>

\* KArchive::add_archive: Vec::append
add_archive(self, arc) == self \o arc

\* HashMap::keys().cloned().collect(): the keys in some order
keys(files) ==
    {inner \in [1..Cardinality(DOMAIN files) -> DOMAIN files] :
        \A i, j \in 1..Cardinality(DOMAIN files) : inner[i] = inner[j] => i = j}

\* the for_each of list_files from backing i on, res holding the paths so far
RECURSIVE list_files_from(_, _, _)
list_files_from(self, i, res) ==
    IF i > Len(self) THEN {res}
    ELSE UNION {list_files_from(self, i + 1, res \o inner) : inner \in keys(self[i].files)}

\* a listing that leaves out the paths an earlier backing already has
RECURSIVE list_files_merged_from(_, _, _)
list_files_merged_from(self, i, res) ==
    IF i > Len(self) THEN {res}
    ELSE UNION {list_files_merged_from(self, i + 1,
                   res \o SelectSeq(inner, LAMBDA p : \A k \in 1..Len(res) : res[k] # p)) :
                inner \in keys(self[i].files)}

list_files_merged(self) == list_files_merged_from(self, 1, <<>>)

\* KArchive::list_files: the lists it can return
list_files(self) == list_files_from(self, 1, <<>>)

\* the length of the file behind a backing path
FileLen(path) == IF path = "A" THEN 12 ELSE 16

\* File::open(&archive.path) and the seek of KFile::open: "Ok", or the kind of
\* the I/O error
FileOpenOutcomes == {"Ok", "NotFound", "PermissionDenied"}

\* the body of the loop of KArchive::open for the backing that has the path
open_in(arc, path, io) ==
    IF arc.buffer # None
    THEN [ok |-> TRUE, kfile |-> KFile_open(path, "Buffer", arc.buffer[1], arc.files[path])]
    ELSE IF io = "Ok"
    THEN [ok |-> TRUE, kfile |-> KFile_open(path, "RealFile", FileLen(arc.path), arc.files[path])]
    ELSE [ok |-> FALSE, err |-> io]

\* the loop of KArchive::open from backing i on
RECURSIVE open_from(_, _, _, _)
open_from(self, i, path, io) ==
    IF i > Len(self) THEN [ok |-> FALSE, err |-> "NotFound"]
    ELSE IF path \in DOMAIN self[i].files THEN open_in(self[i], path, io)
    ELSE open_from(self, i + 1, path, io)

\* an open in which the last backing that has the path wins
RECURSIVE open_shadowed_from(_, _, _, _)
open_shadowed_from(self, i, path, io) ==
    IF i < 1 THEN [ok |-> FALSE, err |-> "NotFound"]
    ELSE IF path \in DOMAIN self[i].files THEN open_in(self[i], path, io)
    ELSE open_shadowed_from(self, i - 1, path, io)

open_shadowed(self, path, io) == open_shadowed_from(self, Len(self), path, io)

\* KArchive::open
KArchive_open(self, path, io) == open_from(self, 1, path, io)

\* an exists that looks into the first backing only
exists_first_only(self, path) == Len(self) > 0 /\ path \in DOMAIN self[1].files

\* KArchive::exists
KArchive_exists(self, path) ==
    \E i \in 1..Len(self) : path \in DOMAIN self[i].files

(***************************************************************************)
(* An archive put together from mounted backings, then queried.            *)
(***************************************************************************)
ArcPaths == {"A", "B"}
EntryPaths == {"p", "q"}

\* the entry of a path in the index of the archive file arc
EntryInfo(arc, p) ==
    [size |-> (IF p = "p" THEN 1 ELSE 2) + (IF arc = "A" THEN 0 ELSE 2),
     offset |-> (IF p = "p" THEN 4 ELSE 8) + (IF arc = "A" THEN 0 ELSE 1),
     cipher |-> None]

\* what mounting one archive file can give: its index, with or without buffer
Mounted ==
    {KArchive_new(path, [p \in dom |-> EntryInfo(path, p)],
                  IF buffered THEN Some(FileLen(path)) ELSE None) :
        path \in ArcPaths, dom \in SUBSET EntryPaths, buffered \in BOOLEAN}

ArchiveInit ==
    /\ archive = init_empty
    /\ answer = [op |-> "none"]
    /\ CipherIdle /\ KFileIdle /\ ParserIdle /\ MoreIdle

\* archive.add_archive(&mut arc), while the archive is being put together
AddArchive ==
    /\ answer.op = "none"
    /\ Len(archive) < MaxBackings
    /\ \E arc \in Mounted : archive' = add_archive(archive, arc)
    /\ UNCHANGED <<answer, cipherVars, kfileVars, parserVars, moreVars>>

\* archive.open(path)
Open ==
    /\ \E path \in EntryPaths, io \in FileOpenOutcomes :
          answer' = [op |-> "open", path |-> path, io |-> io,
                     ret |-> KArchive_open(archive, path, io)]
    /\ UNCHANGED <<archive, cipherVars, kfileVars, parserVars, moreVars>>

\* archive.exists(path)
Exists ==
    /\ \E path \in EntryPaths :
          answer' = [op |-> "exists", path |-> path,
                     ret |-> KArchive_exists(archive, path)]
    /\ UNCHANGED <<archive, cipherVars, kfileVars, parserVars, moreVars>>

\* archive.list_files()
ListFiles ==
    /\ \E res \in list_files(archive) : answer' = [op |-> "list_files", ret |-> res]
    /\ UNCHANGED <<archive, cipherVars, kfileVars, parserVars, moreVars>>

ArchiveNext == AddArchive \/ Open \/ Exists \/ ListFiles

SpecArchive == ArchiveInit /\ [][ArchiveNext]_vars

(***************************************************************************)
(* The readers the parsers are written with: a BufReader over the archive  *)
(* file b, at byte position pos (counted from 0).  A read that fails gives  *)
(* err = "Io"; "" is no error.                                              *)
(***************************************************************************)
\* ReadBytesExt::read_u8: [err, pos, v]
read_u8(b, pos) ==
    IF pos + 1 > Len(b) THEN [err |-> "Io", pos |-> pos, v |-> 0]
    ELSE [err |-> "", pos |-> pos + 1, v |-> b[pos + 1]]

\* ReadBytesExt::read_u16::<LittleEndian>
read_u16(b, pos) ==
    IF pos + 2 > Len(b) THEN [err |-> "Io", pos |-> pos, v |-> 0]
    ELSE [err |-> "", pos |-> pos + 2, v |-> b[pos + 1] + 256 * b[pos + 2]]

\* ReadBytesExt::read_u32::<LittleEndian>.  The archives parsed here hold no
\* u32 above 2^31 - 1 at a place where one is read.
read_u32(b, pos) ==
    IF pos + 4 > Len(b) THEN [err |-> "Io", pos |-> pos, v |-> 0]
    ELSE [err |-> "", pos |-> pos + 4,
          v |-> b[pos + 1] + 256 * b[pos + 2] + 65536 * b[pos + 3] + 16777216 * b[pos + 4]]

\* ReadBytesExt::read_i32::<LittleEndian>
read_i32(b, pos) ==
    IF pos + 4 > Len(b) THEN [err |-> "Io", pos |-> pos, v |-> 0]
    ELSE [err |-> "", pos |-> pos + 4,
          v |-> b[pos + 1] + 256 * b[pos + 2] + 65536 * b[pos + 3]
                + 16777216 * (IF b[pos + 4] >= 128 THEN b[pos + 4] - 256 ELSE b[pos + 4])]

\* BufRead::read_until(0, &mut buf): the bytes up to and with the first 0, or
\* up to the end of the file: [pos, buf]
read_until_0(b, pos) ==
    IF \E i \in (pos + 1)..Len(b) : b[i] = 0
    THEN [pos |-> SetMin({i \in (pos + 1)..Len(b) : b[i] = 0}),
          buf |-> SubSeq(b, pos + 1, SetMin({i \in (pos + 1)..Len(b) : b[i] = 0}))]
    ELSE [pos |-> Max(pos, Len(b)), buf |-> SubSeq(b, pos + 1, Len(b))]

\* String::from_utf8 succeeds.  The names of the archives parsed here are
\* made of ASCII bytes and of 0xFF, which no UTF-8 text contains.
from_utf8_ok(buf) == \A i \in 1..Len(buf) : buf[i] < 128

\* str::trim_start_matches(chars)
RECURSIVE trim_start_matches(_, _)
trim_start_matches(str, chars) ==
    IF str # <<>> /\ str[1] \in chars THEN trim_start_matches(Tail(str), chars) ELSE str

\* str::replace('\\', "/")
replace_backslash(str) == [i \in 1..Len(str) |-> IF str[i] = 92 THEN 47 ELSE str[i]]

\* HashMap::insert
insert(files, name, info) ==
    [k \in DOMAIN files \cup {name} |-> IF k = name THEN info ELSE files[k]]

\* Ok(KArchive::new(path, files, buffer)): the index parse returns
ParseOk(files) == [status |-> "Ok", files |-> files]

\* Err(e) returned by parse
ParseErr == [status |-> "Err", files |-> <<>>]

\* a panic: a failed assert_eq!, unreachable!, or Vec::remove out of bounds
ParsePanic == [status |-> "Panic", files |-> <<>>]

(***************************************************************************)
(* qar.rs                                                                  *)
(***************************************************************************)
\* qar::read_file_name once read_until has returned r: [err, pos, name]
qar_name_read(start, r) ==
    IF r.buf = <<>> \/ r.buf[Len(r.buf)] # 0
    THEN [err |-> "Other", pos |-> start + 132, name |-> <<>>]
    ELSE IF ~from_utf8_ok(SubSeq(r.buf, 1, Len(r.buf) - 1))
    THEN [err |-> "Utf8", pos |-> start + 132, name |-> <<>>]
    ELSE [err |-> "", pos |-> start + 132,
          name |-> replace_backslash(
                       trim_start_matches(SubSeq(r.buf, 1, Len(r.buf) - 1), {46, 92}))]

qar_read_file_name(b, pos) == qar_name_read(pos, read_until_0(b, pos))

\* the closure of qar::parse after the name nm: [err, pos, name, info]
qar_entry_sized(nm, sz) ==
    IF sz.err # "" THEN [err |-> sz.err]
    ELSE [err |-> "", pos |-> sz.pos + 4 + sz.v, name |-> nm.name,
          info |-> [size |-> sz.v, offset |-> sz.pos + 4, cipher |-> None]]

qar_entry_named(b, nm) ==
    IF nm.err # "" THEN [err |-> nm.err]
    ELSE qar_entry_sized(nm, read_u32(b, nm.pos + 4))

qar_entry(b, pos) == qar_entry_named(b, qar_read_file_name(b, pos))

\* (0..file_count).try_for_each of qar::parse, and what follows it
RECURSIVE qar_entries(_, _, _, _)
qar_entry_done(b, left, files, e) ==
    IF e.err # "" THEN ParseOk(files)
    ELSE qar_entries(b, e.pos, left - 1, insert(files, e.name, e.info))

qar_entries(b, pos, left, files) ==
    IF left = 0 THEN ParseOk(files)
    ELSE qar_entry_done(b, left, files, qar_entry(b, pos))

qar_counted(b, file_count) ==
    IF file_count.err # "" THEN ParseErr
    ELSE qar_entries(b, file_count.pos, file_count.v, <<>>)

\* qar::parse
qar_parse(b) == qar_counted(b, read_u32(b, 4))

(***************************************************************************)
(* bar.rs                                                                  *)
(***************************************************************************)
\* bar::read_file_name once read_until has returned r: [err, pos, name]
bar_name_read(start, r) ==
    IF r.buf = <<>> \/ r.buf[Len(r.buf)] # 0
    THEN [err |-> "Other", pos |-> start + 256, name |-> <<>>]
    ELSE IF ~from_utf8_ok(SubSeq(r.buf, 1, Len(r.buf) - 1))
    THEN [err |-> "Utf8", pos |-> start + 256, name |-> <<>>]
    ELSE [err |-> "", pos |-> start + 256,
          name |-> replace_backslash(
                       trim_start_matches(SubSeq(r.buf, 1, Len(r.buf) - 1), {46, 92}))]

bar_read_file_name(b, pos) == bar_name_read(pos, read_until_0(b, pos))

\* the closure of bar::parse after the name nm: [err, pos, name, info]
bar_entry_sized(nm, sz) ==
    IF sz.err # "" THEN [err |-> sz.err]
    ELSE [err |-> "", pos |-> sz.pos + 4 + sz.v, name |-> nm.name,
          info |-> [size |-> sz.v, offset |-> sz.pos + 4, cipher |-> None]]

bar_entry_magic(b, nm, magic1, magic2) ==
    IF magic1.err # "" THEN [err |-> magic1.err]
    ELSE IF magic2.err # "" THEN [err |-> magic2.err]
    ELSE IF magic1.v # 3 \/ magic2.v # -1 THEN [err |-> "Parse"]
    ELSE bar_entry_sized(nm, read_u32(b, magic2.pos))

\* a parser of the 256-byte layout alone: always seek_relative(-4)
bar_entry_peeked_256(b, nm, peek) ==
    IF peek.err # "" THEN [err |-> peek.err]
    ELSE bar_entry_magic(b, nm, read_i32(b, peek.pos - 4), read_i32(b, peek.pos))

bar_entry_peeked(b, nm, peek) ==
    IF peek.err # "" THEN [err |-> peek.err]
    ELSE bar_entry_magic(b, nm,
                         read_i32(b, peek.pos - (IF peek.v = -1 THEN 8 ELSE 4)),
                         read_i32(b, peek.pos - (IF peek.v = -1 THEN 8 ELSE 4) + 4))

bar_entry_named(b, nm) ==
    IF nm.err # "" THEN [err |-> nm.err]
    ELSE bar_entry_peeked(b, nm, read_i32(b, nm.pos))

bar_entry(b, pos) == bar_entry_named(b, bar_read_file_name(b, pos))

\* (0..file_count).try_for_each of bar::parse, and what follows it
RECURSIVE bar_entries(_, _, _, _)
bar_entry_done(b, left, files, e) ==
    IF e.err # "" THEN ParseOk(files)
    ELSE bar_entries(b, e.pos, left - 1, insert(files, e.name, e.info))

bar_entries(b, pos, left, files) ==
    IF left = 0 THEN ParseOk(files)
    ELSE bar_entry_done(b, left, files, bar_entry(b, pos))

bar_counted(b, file_count) ==
    IF file_count.err # "" THEN ParseErr
    ELSE bar_entries(b, file_count.pos, file_count.v, <<>>)

\* bar::parse
bar_parse(b) == bar_counted(b, read_u16(b, 10))

(***************************************************************************)
(* d2.rs                                                                   *)
(***************************************************************************)
\* d2::read_file_header after the two lengths: [err, pos, name, size]
d2_header_named(b, path_len, filesize) ==
    IF path_len.v > 0 /\ filesize.pos + 16 + path_len.v > Len(b) THEN [err |-> "Io"]
    ELSE IF ~from_utf8_ok(SubSeq(b, filesize.pos + 17, filesize.pos + 16 + path_len.v))
    THEN [err |-> "Utf8"]
    ELSE [err |-> "", pos |-> filesize.pos + 16 + path_len.v,
          name |-> SubSeq(b, filesize.pos + 17, filesize.pos + 16 + path_len.v),
          size |-> filesize.v]

d2_header_sized(b, path_len, filesize) ==
    IF filesize.err # "" THEN [err |-> filesize.err]
    ELSE d2_header_named(b, path_len, filesize)

d2_header_lengths(b, path_len) ==
    IF path_len.err # "" THEN [err |-> path_len.err]
    ELSE d2_header_sized(b, path_len, read_u32(b, path_len.pos))

\* assert_eq!(rdr.read_u8()?, 1)
d2_header_first(b, first) ==
    IF first.err # "" THEN [err |-> first.err]
    ELSE IF first.v # 1 THEN [err |-> "Panic"]
    ELSE d2_header_lengths(b, read_u32(b, first.pos))

\* d2::read_file_header
read_file_header(b, pos) == d2_header_first(b, read_u8(b, pos))

\* (0..num_files).try_for_each of d2::parse, and what follows it
RECURSIVE d2_entries(_, _, _, _)
d2_entry_done(b, left, files, h) ==
    IF h.err = "Panic" THEN ParsePanic
    ELSE IF h.err # "" THEN ParseOk(files)
    ELSE d2_entries(b, h.pos + h.size, left - 1,
                    insert(files, h.name, [size |-> h.size, offset |-> h.pos, cipher |-> None]))

d2_entries(b, pos, left, files) ==
    IF left = 0 THEN ParseOk(files)
    ELSE d2_entry_done(b, left, files, read_file_header(b, pos))

d2_counted(b, num_files, archive_size) ==
    IF num_files.err # "" \/ archive_size.err # "" THEN ParseErr
    ELSE d2_entries(b, archive_size.pos, num_files.v, <<>>)

\* d2::parse
d2_parse(b) == d2_counted(b, read_u32(b, 0), read_u32(b, 4))

(***************************************************************************)
(* mar.rs, the archive parser.  crypted says that the basename of the       *)
(* archive contains "M32", so that its entries carry a cipher.             *)
(***************************************************************************)
\* mar::read_file_name once read_until has returned r: [err, pos, name,
\* real_name].
\* buf.remove(buf.len() - 1) of an empty buf panics.
mar_name_read(r) ==
    IF r.buf = <<>> THEN [err |-> "Panic"]
    ELSE IF ~from_utf8_ok(SubSeq(r.buf, 1, Len(r.buf) - 1)) THEN [err |-> "Utf8"]
    ELSE [err |-> "", pos |-> r.pos, real_name |-> SubSeq(r.buf, 1, Len(r.buf) - 1),
          name |-> replace_backslash(
                       trim_start_matches(SubSeq(r.buf, 1, Len(r.buf) - 1), {46, 92, 47}))]

mar_read_file_name(b, pos) == mar_name_read(read_until_0(b, pos))

\* the arm of tag 1 after the name nm: [err, pos, name, info]
mar_file_sized_sanitized(crypted, nm, sz) ==
    IF sz.err # "" THEN [err |-> sz.err]
    ELSE [err |-> "", pos |-> sz.pos + sz.v, name |-> nm.name,
          info |-> [size |-> sz.v, offset |-> sz.pos,
                    cipher |-> IF ~crypted THEN None
                               ELSE Some(MarCipher_new(as_u32(crc16_x25(nm.name) * 3),
                                                       crc32(nm.name), sz.v))]]

mar_file_sized(crypted, nm, sz) ==
    IF sz.err # "" THEN [err |-> sz.err]
    ELSE [err |-> "", pos |-> sz.pos + sz.v, name |-> nm.name,
          info |-> [size |-> sz.v, offset |-> sz.pos,
                    cipher |-> IF ~crypted THEN None
                               ELSE Some(MarCipher_new(as_u32(crc16_x25(nm.real_name) * 3),
                                                       crc32(nm.real_name), sz.v))]]

mar_file_named(b, crypted, nm) ==
    IF nm.err # "" THEN [err |-> nm.err]
    ELSE mar_file_sized(crypted, nm, read_u32(b, nm.pos))

\* the loop of mar::parse
RECURSIVE mar_entries(_, _, _, _)
mar_file_done(b, crypted, files, e) ==
    IF e.err = "Panic" THEN ParsePanic
    ELSE IF e.err # "" THEN ParseOk(files)
    ELSE mar_entries(b, crypted, e.pos, insert(files, e.name, e.info))

mar_dir_done(b, crypted, files, nm) ==
    IF nm.err = "Panic" THEN ParsePanic
    ELSE IF nm.err # "" THEN ParseOk(files)
    ELSE mar_entries(b, crypted, nm.pos, files)

mar_tagged(b, crypted, files, tag) ==
    IF tag.err # "" THEN ParseOk(files)
    ELSE IF tag.v = 1
    THEN mar_file_done(b, crypted, files,
                       mar_file_named(b, crypted, mar_read_file_name(b, tag.pos)))
    ELSE IF tag.v = 2 THEN mar_dir_done(b, crypted, files, mar_read_file_name(b, tag.pos))
    ELSE IF tag.v = 255 THEN ParseOk(files)
    ELSE ParsePanic

mar_entries(b, crypted, pos, files) == mar_tagged(b, crypted, files, read_u8(b, pos))

\* b"MASMAR0\0"
MarMagic == <<77, 65, 83, 77, 65, 82, 48, 0>>

\* str::contains
contains(text, pat) ==
    \E i \in 1..(Len(text) - Len(pat) + 1) : SubSeq(text, i, i + Len(pat) - 1) = pat

\* Path::file_name, for a path that does not end with '/', "." or ".."
file_name(path) ==
    SubSeq(path, SetMax({0} \cup {i \in 1..Len(path) : path[i] = 47}) + 1, Len(path))

\* path.file_name().unwrap().to_str().unwrap().contains("M32")
is_crypted(path) == contains(file_name(path), <<77, 51, 50>>)

\* mar::parse
mar_parse(path, b) ==
    IF Len(b) < 8 \/ SubSeq(b, 1, 8) # MarMagic THEN ParseErr
    ELSE mar_entries(b, is_crypted(path), 8, <<>>)

(***************************************************************************)
(* Archive files written record by record, one record possibly damaged,    *)
(* cut at any byte, and parsed.                                            *)
(***************************************************************************)
MaxEntries == 2

Formats == {"QAR", "BAR", "D2", "MAR"}

\* how a record can differ from a plain one.  Damaged: "nonul" (the name
\* field of a QAR or BAR record has no 0 byte), "badutf8" (a 0xFF byte in the name), "badfixed" (a
\* D2 first byte of 2, a BAR magic of 4, a MAR tag of 7).  Sound: "m39a" (BAR
\* name field of 252 bytes), "dir" (MAR directory record), "slash" (the stored
\* name begins with '/').
Variants(format) ==
    CASE format = "QAR" -> {"nonul", "badutf8", "slash"}
      [] format = "BAR" -> {"nonul", "badutf8", "badfixed", "m39a", "slash"}
      [] format = "D2" -> {"badutf8", "badfixed", "slash"}
      [] format = "MAR" -> {"badutf8", "badfixed", "dir", "slash"}

Damaged == {"nonul", "badutf8", "badfixed"}

Rep(x, n) == [i \in 1..n |-> x]
u16le(v) == <<v % 256, v \div 256>>
u32le(v) == <<v % 256, (v \div 256) % 256, (v \div 65536) % 256, v \div 16777216>>

\* the stored name of record k: ".\d\<letter>"
StoredName(k, variant) ==
    CASE variant = "badutf8" -> <<46, 92, 255, 92, 96 + k>>
      [] variant = "slash" -> <<47, 46, 92, 100, 92, 96 + k>>
      [] OTHER -> <<46, 92, 100, 92, 96 + k>>


PayloadLen(k) == k

NameField(k, variant, width) ==
    IF variant = "nonul" THEN Rep(97, width)
    ELSE StoredName(k, variant) \o Rep(0, width - Len(StoredName(k, variant)))

\* record k up to its payload
RecordHead(format, k, variant) ==
    CASE format = "QAR" ->
            NameField(k, variant, 132) \o Rep(0, 4) \o u32le(PayloadLen(k)) \o Rep(0, 4)
      [] format = "BAR" ->
            NameField(k, variant, IF variant = "m39a" THEN 252 ELSE 256)
            \o u32le(IF variant = "badfixed" THEN 4 ELSE 3) \o Rep(255, 4)
            \o u32le(PayloadLen(k)) \o Rep(0, 4)
      [] format = "D2" ->
            <<IF variant = "badfixed" THEN 2 ELSE 1>> \o u32le(Len(StoredName(k, variant)))
            \o u32le(PayloadLen(k))
            \o Rep(9, 16) \o StoredName(k, variant)
      [] format = "MAR" ->
            CASE variant = "dir" -> <<2>> \o StoredName(k, variant) \o <<0>>
              [] OTHER -> <<IF variant = "badfixed" THEN 7 ELSE 1>> \o StoredName(k, variant)
                          \o <<0>> \o u32le(PayloadLen(k))

Record(format, k, variant) ==
    RecordHead(format, k, variant)
    \o (IF format = "MAR" /\ variant = "dir" THEN <<>> ELSE Rep(7, PayloadLen(k)))

Header(format, n) ==
    CASE format = "QAR" -> <<81, 65, 82, 0>> \o u32le(n)
      [] format = "BAR" -> Rep(0, 10) \o u16le(n)
      [] format = "D2" -> u32le(n) \o u32le(0)
      [] format = "MAR" -> MarMagic

\* the variant of record k in the file f = [format, n, odd, variant, cut]
VariantOf(f, k) == IF k = f.odd THEN f.variant ELSE "plain"

\* the header and the first k records of f
RECURSIVE Records(_, _)
Records(f, k) ==
    IF k = 0 THEN Header(f.format, f.n)
    ELSE Records(f, k - 1) \o Record(f.format, k, VariantOf(f, k))

\* the whole file, and what is left of it after the cut
WholeFile(f) == Records(f, f.n) \o (IF f.format = "MAR" THEN <<255>> ELSE <<>>)
FileBytes(f) == SubSeq(WholeFile(f), 1, f.cut)

\* no file written here is longer: a BAR file of MaxEntries plain records
LongestFile == 12 + MaxEntries * (272 + MaxEntries)

\* the name of the archive parsed by the four parsers alone: a.bin
InputName == <<97, 46, 98, 105, 110>>

Files ==
    {f \in [format : Formats, n : 0..MaxEntries, odd : 0..MaxEntries,
            variant : Damaged \cup {"m39a", "dir", "slash", "plain"}, cut : 0..LongestFile] :
        /\ f.odd <= f.n
        /\ (f.odd = 0) = (f.variant = "plain")
        /\ f.odd > 0 => f.variant \in Variants(f.format)
        /\ f.cut <= Len(WholeFile(f))}

ParserInit ==
    /\ input \in Files
    /\ parsed = [status |-> "none"]
    /\ CipherIdle /\ KFileIdle /\ ArchiveIdle /\ MoreIdle

\* crate::qar::parse(path)
QarParse ==
    /\ parsed.status = "none" /\ input.format = "QAR"
    /\ parsed' = qar_parse(FileBytes(input))
    /\ UNCHANGED <<input, cipherVars, kfileVars, archiveVars, moreVars>>

\* crate::bar::parse(path)
BarParse ==
    /\ parsed.status = "none" /\ input.format = "BAR"
    /\ parsed' = bar_parse(FileBytes(input))
    /\ UNCHANGED <<input, cipherVars, kfileVars, archiveVars, moreVars>>

\* crate::d2::parse(path)
D2Parse ==
    /\ parsed.status = "none" /\ input.format = "D2"
    /\ parsed' = d2_parse(FileBytes(input))
    /\ UNCHANGED <<input, cipherVars, kfileVars, archiveVars, moreVars>>

\* crate::mar::parse(path)
MarParse ==
    /\ parsed.status = "none" /\ input.format = "MAR"
    /\ parsed' = mar_parse(InputName, FileBytes(input))
    /\ UNCHANGED <<input, cipherVars, kfileVars, archiveVars, moreVars>>

ParserNext == QarParse \/ BarParse \/ D2Parse \/ MarParse

SpecParser == ParserInit /\ [][ParserNext]_vars

(***************************************************************************)
(* mount (lib.rs): the parser is chosen from the first 4 bytes of the file *)
(* and from the extension of its name.  File names and contents are byte   *)
(* sequences; all files lie in one directory.                              *)
(***************************************************************************)
\* Path::extension: what follows the last '.' of the file name, if there is
\* one and it is not the first byte of the name
extension(name) ==
    IF {i \in 1..Len(name) : name[i] = 46} \subseteq {1} THEN None
    ELSE Some(SubSeq(name, SetMax({i \in 1..Len(name) : name[i] = 46}) + 1, Len(name)))

\* a choice that looks at the extension before it looks at the magic
select_parser_by_extension_first(magic, name) ==
    IF extension(name) \in {Some(<<100, 50>>), Some(<<100, 97, 116>>)} THEN "D2"
    ELSE CASE magic = <<81, 65, 82, 0>> -> "QAR"
           [] magic = <<77, 65, 83, 77>> -> "MAR"
           [] magic = <<85, 76, 83, 84>> -> "ULST"
           [] magic = <<78, 65, 77, 69>> -> "INFO"
           [] magic = <<77, 83, 67, 70>> -> "CAB"
           [] OTHER -> "BAR"

\* match &magic of mount: the parser for a file that begins with magic
select_parser(magic, name) ==
    CASE magic = <<81, 65, 82, 0>> -> "QAR"
      [] magic = <<77, 65, 83, 77>> -> "MAR"
      [] magic = <<85, 76, 83, 84>> -> "ULST"
      [] magic = <<78, 65, 77, 69>> -> "INFO"
      [] magic = <<77, 83, 67, 70>> -> "CAB"
      [] OTHER -> IF extension(name) \in {Some(<<100, 50>>), Some(<<100, 97, 116>>)}
                  THEN "D2" ELSE "BAR"

\* what mount returns: Ok(archive) or Err(e), or a panic; parser is the
\* parser mount chose
MountOk(parser, archives) == [status |-> "Ok", parser |-> parser, archives |-> archives]
MountErr(parser) == [status |-> "Err", parser |-> parser, archives |-> <<>>]
MountPanic(parser) == [status |-> "Panic", parser |-> parser, archives |-> <<>>]

\* the result of an archive parser as the result of mount.  The medium is
\* fast: benchmark returns no buffer.
mount_parsed(parser, path, r) ==
    CASE r.status = "Ok" -> MountOk(parser, KArchive_new(path, r.files, None))
      [] r.status = "Err" -> MountErr(parser)
      [] r.status = "Panic" -> MountPanic(parser)

(***************************************************************************)
(* lst.rs: the ULST index, read with binread (little-endian host)          *)
(***************************************************************************)
\* a NullString with pad_size_to = pad, read at pos: [err, pos, s]
lst_string(b, pos, pad) ==
    IF \A i \in (pos + 1)..Len(b) : b[i] # 0 THEN [err |-> "Binread", pos |-> pos, s |-> <<>>]
    ELSE [err |-> "", pos |-> Max(read_until_0(b, pos).pos, pos + pad),
          s |-> SubSeq(b, pos + 1, read_until_0(b, pos).pos - 1)]

\* the next NullString field after the field read as r
lst_field(b, r, pad) == IF r.err # "" THEN r ELSE lst_string(b, r.pos, pad)

\* LstEntry: name, file_name, checksum_type, checksum, file_size and 0x10
\* bytes of padding: [err, pos, file_name]
lst_entry_read(b, named, checksum) ==
    IF checksum.err # "" \/ checksum.pos + 8 > Len(b)
    THEN [err |-> "Binread", pos |-> checksum.pos, file_name |-> <<>>]
    ELSE [err |-> "", pos |-> checksum.pos + 8 + 16, file_name |-> named.s]

LstEntry(b, pos) ==
    lst_entry_read(b, lst_field(b, lst_string(b, pos, 32), 64),
                   lst_field(b, lst_field(b, lst_field(b, lst_string(b, pos, 32), 64), 8), 40))

\* #[br(count = file_count)] files: Vec<LstEntry>: [err, files]
RECURSIVE lst_files(_, _, _, _)
lst_files_next(b, left, files, e) ==
    IF e.err # "" THEN [err |-> e.err, files |-> <<>>]
    ELSE lst_files(b, e.pos, left - 1, Append(files, e.file_name))

lst_files(b, pos, left, files) ==
    IF left = 0 THEN [err |-> "", files |-> files]
    ELSE lst_files_next(b, left, files, LstEntry(b, pos))

\* LstFile::read: the magic, file_count aligned to 0x10, the entries
LstFile_read(b) ==
    IF Len(b) < 6 \/ SubSeq(b, 1, 4) # <<85, 76, 83, 84>> THEN [err |-> "Binread", files |-> <<>>]
    ELSE lst_files(b, 16, read_u16(b, 4).v, <<>>)

(***************************************************************************)
(* info.rs: the plain-text index                                           *)
(***************************************************************************)
\* the index of the first '\n' of a text that has one
read_until_10(contents) == SetMin({i \in 1..Len(contents) : contents[i] = 10})

\* str::lines: the text split at '\n', a '\r' before it dropped, no last
\* empty line
RECURSIVE lines(_)
lines(contents) ==
    IF contents = <<>> THEN <<>>
    ELSE IF \A i \in 1..Len(contents) : contents[i] # 10
    THEN <<IF contents[Len(contents)] = 13
           THEN SubSeq(contents, 1, Len(contents) - 1) ELSE contents>>
    ELSE <<IF read_until_10(contents) > 1 /\ contents[read_until_10(contents) - 1] = 13
           THEN SubSeq(contents, 1, read_until_10(contents) - 2)
           ELSE SubSeq(contents, 1, read_until_10(contents) - 1)>>
         \o lines(SubSeq(contents, read_until_10(contents) + 1, Len(contents)))

\* str::starts_with
starts_with(line, prefix) ==
    Len(line) >= Len(prefix) /\ SubSeq(line, 1, Len(prefix)) = prefix

\* str::trim, on the ASCII white space
RECURSIVE trim_start(_)
trim_start(str) ==
    IF str # <<>> /\ str[1] \in {9, 10, 11, 12, 13, 32} THEN trim_start(Tail(str)) ELSE str

RECURSIVE trim_end(_)
trim_end(str) ==
    IF str # <<>> /\ str[Len(str)] \in {9, 10, 11, 12, 13, 32}
    THEN trim_end(SubSeq(str, 1, Len(str) - 1)) ELSE str

trim(str) == trim_end(trim_start(str))

\* the first loop of info::parse from line i on: [panic, file_names].
\* strip_prefix("FILE : ").unwrap() panics on None.
RECURSIVE info_file_names(_, _, _)
info_file_names(ls, i, file_names) ==
    IF i > Len(ls) THEN [panic |-> FALSE, file_names |-> file_names]
    ELSE IF ~starts_with(ls[i], <<70, 73, 76, 69>>)
    THEN info_file_names(ls, i + 1, file_names)
    ELSE IF ~starts_with(ls[i], <<70, 73, 76, 69, 32, 58, 32>>)
    THEN [panic |-> TRUE, file_names |-> file_names]
    ELSE info_file_names(ls, i + 1,
                         Append(file_names, trim(SubSeq(ls[i], 8, Len(ls[i])))))

(***************************************************************************)
(* The directory mount reads: a function from file names to what the file  *)
(* holds.  A file is described by a record, and Content gives its bytes.   *)
(***************************************************************************)
MaxSiblings == 2

\* the bytes of a text
NameLine == <<78, 65, 77, 69, 32, 58, 32, 120>>
FilePrefix == <<70, 73, 76, 69, 32, 58, 32>>

RECURSIVE Join(_, _)
Join(ls, eol) == IF ls = <<>> THEN <<>> ELSE ls[1] \o eol \o Join(Tail(ls), eol)

\* one entry of a ULST file naming the sibling name
LstEntryBytes(name) ==
    <<101>> \o Rep(0, 31) \o name \o Rep(0, 64 - Len(name)) \o <<109, 100, 53>> \o Rep(0, 5)
    \o Rep(48, 32) \o Rep(0, 8) \o Rep(1, 8) \o Rep(0, 16)

RECURSIVE LstEntriesBytes(_)
LstEntriesBytes(names) ==
    IF names = <<>> THEN <<>> ELSE LstEntryBytes(names[1]) \o LstEntriesBytes(Tail(names))

Content(file) ==
    CASE file.kind = "raw" -> file.bytes
      [] file.kind = "archive" -> FileBytes(file.f)
      [] file.kind = "ULST" ->
            SubSeq(<<85, 76, 83, 84>> \o u16le(Len(file.names)) \o Rep(0, 10)
                   \o LstEntriesBytes(file.names), 1, file.cut)
      [] file.kind = "INFO" -> Join(<<NameLine>> \o file.lines, file.eol)
      \* a cabinet stands for its member "arcfile": the magic, then the member
      [] file.kind = "CAB" -> <<77, 83, 67, 70>> \o file.arcfile

\* mount, and the two index parsers that call it
RECURSIVE mount(_, _)

\* the loop over the siblings of lst::parse and of info::parse, from sibling
\* i on; a panic of a sibling's mount unwinds through the loop
RECURSIVE mount_siblings(_, _, _, _, _)
sibling_mounted(dir, parser, names, i, arcs, arc) ==
    CASE arc.status = "Panic" -> MountPanic(parser)
      [] arc.status = "Ok" ->
            mount_siblings(dir, parser, names, i + 1, add_archive(arcs, arc.archives))
      [] arc.status = "Err" -> mount_siblings(dir, parser, names, i + 1, arcs)

mount_siblings(dir, parser, names, i, arcs) ==
    IF i > Len(names) THEN MountOk(parser, arcs)
    ELSE sibling_mounted(dir, parser, names, i, arcs, mount(dir, names[i]))

\* lst::parse
lst_listed(dir, lst_file) ==
    IF lst_file.err # "" THEN MountErr("ULST")
    ELSE mount_siblings(dir, "ULST", lst_file.files, 1, init_empty)

lst_parse(dir, path) == lst_listed(dir, LstFile_read(Content(dir[path])))

\* info::parse.  fs::read_to_string fails on a text that is not UTF-8.
info_listed(dir, r) ==
    IF r.panic THEN MountPanic("INFO")
    ELSE mount_siblings(dir, "INFO", r.file_names, 1, init_empty)

info_parse(dir, path) ==
    IF ~from_utf8_ok(Content(dir[path])) THEN MountErr("INFO")
    ELSE info_listed(dir, info_file_names(lines(Content(dir[path])), 1, <<>>))

\* cab::parse.  No file here is a whole cabinet: Cabinet::new fails.
cab_parse(dir, path) == MountErr("CAB")

\* the match of mount on the parser chosen
mount_with(dir, path, parser) ==
    CASE parser = "QAR" -> mount_parsed(parser, path, qar_parse(Content(dir[path])))
      [] parser = "MAR" -> mount_parsed(parser, path, mar_parse(path, Content(dir[path])))
      [] parser = "D2" -> mount_parsed(parser, path, d2_parse(Content(dir[path])))
      [] parser = "BAR" -> mount_parsed(parser, path, bar_parse(Content(dir[path])))
      [] parser = "ULST" -> lst_parse(dir, path)
      [] parser = "INFO" -> info_parse(dir, path)
      [] parser = "CAB" -> cab_parse(dir, path)

\* mount: File::open fails on a missing file, read_exact on a file of less
\* than 4 bytes
mount(dir, path) ==
    IF path \notin DOMAIN dir \/ Len(Content(dir[path])) < 4 THEN MountErr("none")
    ELSE mount_with(dir, path, select_parser(SubSeq(Content(dir[path]), 1, 4), path))

\* the siblings every directory holds, whole and damaged, and one name
\* (Gone) that no file has
Whole1(format) == [format |-> format, n |-> 1, odd |-> 0, variant |-> "plain", cut |-> 0]
ArchiveFile(f) == [kind |-> "archive", f |-> [f EXCEPT !.cut = Len(WholeFile(f))]]

QarName == <<113, 46, 113, 97, 114>>
MarName == <<109, 46, 109, 97, 114>>
D2Name == <<100, 46, 100, 50>>
BarName == <<98, 46, 98, 97, 114>>
CutName == <<116, 46, 113, 97, 114>>
BadName == <<112, 46, 100, 50>>
NestedName == <<110, 46, 116, 120, 116>>
Gone == <<103, 111, 110, 101>>

Siblings ==
    (QarName :> ArchiveFile(Whole1("QAR")))
    @@ (MarName :> ArchiveFile(Whole1("MAR")))
    @@ (D2Name :> ArchiveFile(Whole1("D2")))
    @@ (BarName :> ArchiveFile(Whole1("BAR")))
    @@ (CutName :> [kind |-> "archive", f |-> [Whole1("QAR") EXCEPT !.cut = 6]])
    @@ (BadName :> ArchiveFile([Whole1("D2") EXCEPT !.odd = 1, !.variant = "badfixed"]))
    @@ (NestedName :> [kind |-> "INFO", eol |-> <<10>>,
                       lines |-> <<FilePrefix \o QarName, FilePrefix \o MarName>>])

SiblingNames == DOMAIN Siblings \cup {Gone}

\* the names of the file that is mounted: a.d2, a.dat, a.bar, a, .d2, a.D2,
\* a.d2.x, a.x.dat, M32.mar, aM32, m32.mar, M3.2, M32/a
MountNames ==
    {<<97, 46, 100, 50>>, <<97, 46, 100, 97, 116>>, <<97, 46, 98, 97, 114>>, <<97>>,
     <<46, 100, 50>>, <<97, 46, 68, 50>>, <<97, 46, 100, 50, 46, 120>>,
     <<97, 46, 120, 46, 100, 97, 116>>, <<77, 51, 50, 46, 109, 97, 114>>, <<97, 77, 51, 50>>,
     <<109, 51, 50, 46, 109, 97, 114>>, <<77, 51, 46, 50>>, <<77, 51, 50, 47, 97>>}

\* MAR archives of one record and more, one of them a directory or a file
\* whose stored name begins with '/' or is not UTF-8
MarFiles ==
    {f \in [format : {"MAR"}, n : 1..MaxEntries, odd : 0..MaxEntries,
            variant : {"plain", "slash", "dir", "badutf8"}, cut : {0}] :
        f.odd <= f.n /\ (f.odd = 0) = (f.variant = "plain")}

\* what the first bytes of the file are: the five magic numbers, values near
\* them, and files of less than 4 bytes
Heads ==
    {<<81, 65, 82, 0>>, <<77, 65, 83, 77>>, <<85, 76, 83, 84>>, <<78, 65, 77, 69>>,
     <<77, 83, 67, 70>>, <<81, 65, 82>>, <<81, 65, 82, 1>>, <<109, 97, 115, 109>>,
     <<0, 81, 65, 82>>, <<>>, <<85, 76, 83, 84, 0, 0>>, <<1, 0, 0, 0, 0, 0, 0, 0>>,
     <<81, 65, 82, 0, 0, 0, 0, 0>>, <<77, 65, 83, 77, 65, 82, 48, 0, 255>>}

\* the lines of an INFO file: references to the siblings, and other lines
\* (FILE: q.qar, FILENAME, FILE, FILE :, NAME : y, a reference after two
\* spaces, a reference with spaces around the name, the empty line)
OtherLines ==
    {<<70, 73, 76, 69, 58, 32>> \o QarName, <<70, 73, 76, 69, 78, 65, 77, 69>>,
     <<70, 73, 76, 69>>, <<70, 73, 76, 69, 32, 58>>, <<78, 65, 77, 69, 32, 58, 32, 121>>,
     <<32, 32>> \o FilePrefix \o QarName, FilePrefix \o <<32>> \o MarName \o <<32, 9>>, <<>>}

InfoLines == {FilePrefix \o name : name \in SiblingNames} \cup OtherLines

SeqsUpTo(S, n) == UNION {[1..k -> S] : k \in 0..n}

LstLen(names) == 16 + 168 * Len(names)

Targets ==
    {[kind |-> "raw", bytes |-> h] : h \in Heads}
    \cup {ArchiveFile(Whole1(format)) : format \in Formats}
    \cup {ArchiveFile(f) : f \in MarFiles}
    \cup {[kind |-> "INFO", lines |-> ls, eol |-> eol] :
             ls \in SeqsUpTo(InfoLines, MaxSiblings), eol \in {<<10>>, <<13, 10>>}}
    \cup UNION {{[kind |-> "ULST", names |-> names, cut |-> LstLen(names) - less] :
                    less \in {0, 10, 20}} : names \in SeqsUpTo(SiblingNames, MaxSiblings)}

\* the mounted file has any name when it is not an index, and the name a.bar
\* when it is one
MountInit ==
    /\ CipherIdle /\ KFileIdle /\ ArchiveIdle /\ ParserIdle
    /\ pair = <<>> /\ probe = <<>> /\ guess = <<>> /\ chain = <<>> /\ run = <<>>
    /\ \E path \in MountNames, file \in Targets :
          /\ file.kind \in {"INFO", "ULST"} => path = <<97, 46, 98, 97, 114>>
          /\ fs = [path |-> path, dir |-> (path :> file) @@ Siblings]
    /\ mounted = <<>>

\* k_archives::mount(path)
Mount ==
    /\ fs # <<>>
    /\ mounted = <<>>
    /\ mounted' = mount(fs.dir, fs.path)
    /\ UNCHANGED <<baseVars, fs, pair, probe, guess, chain, run>>

MountNext == Mount

SpecMount == MountInit /\ [][MountNext]_vars

(***************************************************************************)
(* Two KFiles opened from one archive (common.rs).  The cipher states live *)
(* in cells: cell 1 is the one of the archive's entry, and a KFile holds   *)
(* the number of the cell its info.cipher is in, so that a cipher state    *)
(* shared by two owners would show.                                        *)
(***************************************************************************)
\* operations on each KFile of a run
MaxOps == 2

\* the entry: its payload starts at byte 3 of the backing "A" and is 6 bytes
\* long, one block and a partial one
PairPath == "p"
PairInfo(c) == [size |-> 6, offset |-> 3, cipher |-> c]
PairCiphers == {None} \cup {Some(MarCipher_new(kv.key, kv.iv, 6)) : kv \in KFileKeyIvs}

\* the archive whose entry has the cipher state c
PairArchive(c, buffer) == KArchive_new("A", (PairPath :> PairInfo(c)), buffer)

\* a KFile that keeps the cell of the archive's entry
info_shared(cells, ref) == [cells |-> cells, ref |-> ref]

\* info.clone(): a new cell with a copy of the cipher state
info_clone(cells, ref) == [cells |-> Append(cells, cells[ref]), ref |-> Len(cells) + 1]

\* the KFile f with the cipher state of its cell
Deref(cells, f) == [f.kf EXCEPT !.info.cipher = cells[f.ref]]

PairReads == {1, 4}
PairSeeks ==
    {[kind |-> "Start", n |-> 0], [kind |-> "Start", n |-> 3], [kind |-> "Current", n |-> -1],
     [kind |-> "End", n |-> 0]}

Closed == [open |-> FALSE]

PairInit ==
    /\ CipherIdle /\ KFileIdle /\ ArchiveIdle /\ ParserIdle /\ MountIdle
    /\ probe = <<>> /\ guess = <<>> /\ chain = <<>> /\ run = <<>>
    /\ \E c \in PairCiphers, buffer \in {None, Some(FileLen("A"))} :
          pair = [cells |-> <<c>>, orig |-> c, buffer |-> buffer, files |-> <<Closed, Closed>>,
                  last |-> [op |-> "none"], panicked |-> FALSE]

\* archive.open(path) for the i-th KFile; the file `alone` is the one the
\* same call gives on the archive as it was mounted
pair_opened(i, opened, alone, cl) ==
    [pair EXCEPT !.cells = cl.cells,
                 !.files[i] = [open |-> TRUE, kf |-> opened, ref |-> cl.ref, alone |-> alone,
                               ops |-> 0],
                 !.last = [op |-> "open", who |-> i, got |-> opened.info.cipher,
                           alone |-> alone.info.cipher]]

PairOpen ==
    /\ pair # <<>> /\ ~pair.panicked
    /\ \E i \in 1..2 :
          /\ ~pair.files[i].open
          /\ pair' = pair_opened(i,
                        KArchive_open(PairArchive(pair.cells[1], pair.buffer), PairPath, "Ok").kfile,
                        KArchive_open(PairArchive(pair.orig, pair.buffer), PairPath, "Ok").kfile,
                        info_clone(pair.cells, 1))
    /\ UNCHANGED <<baseVars, mountVars, probe, guess, chain, run>>

\* the state after an operation of the i-th KFile that gave r, and ra alone
pair_done(i, r, ra, op, same) ==
    IF r.panic
    THEN [pair EXCEPT !.panicked = TRUE,
                      !.last = [op |-> "panic", who |-> i, got |-> TRUE, alone |-> ra.panic]]
    ELSE [pair EXCEPT !.cells[pair.files[i].ref] = r.kf.info.cipher,
                      !.files[i].kf = r.kf,
                      !.files[i].alone = ra.kf,
                      !.files[i].ops = @ + 1,
                      !.last = [op |-> op, who |-> i, got |-> r.got,
                                alone |-> IF same THEN ra.got ELSE <<"other">>]]

\* what the caller of read sees
read_result(r) ==
    [kf |-> r.kf, panic |-> r.panic \/ r.overflow, got |-> <<r.ret, r.buf>>]

\* file.read(&mut buf) on the i-th KFile, with buf.len() = n
PairRead ==
    /\ pair # <<>> /\ ~pair.panicked
    /\ \E i \in 1..2, n \in PairReads :
          /\ pair.files[i].open /\ pair.files[i].ops < MaxOps
          /\ \E ret_val \in KFile_read_counts(Deref(pair.cells, pair.files[i]), n) :
                pair' = pair_done(i,
                           read_result(KFile_read(Deref(pair.cells, pair.files[i]), n, ret_val)),
                           read_result(KFile_read(pair.files[i].alone, n, ret_val)),
                           "read",
                           ret_val \in KFile_read_counts(pair.files[i].alone, n))
    /\ UNCHANGED <<baseVars, mountVars, probe, guess, chain, run>>

\* what the caller of seek sees
seek_result(r) == [kf |-> r.kf, panic |-> FALSE, got |-> <<r.ok, r.ret>>]

\* file.seek(from) on the i-th KFile
PairSeek ==
    /\ pair # <<>> /\ ~pair.panicked
    /\ \E i \in 1..2, from \in PairSeeks :
          /\ pair.files[i].open /\ pair.files[i].ops < MaxOps
          /\ pair' = pair_done(i,
                        seek_result(KFile_seek(Deref(pair.cells, pair.files[i]), from)),
                        seek_result(KFile_seek(pair.files[i].alone, from)),
                        "seek", TRUE)
    /\ UNCHANGED <<baseVars, mountVars, probe, guess, chain, run>>

PairNext == PairOpen \/ PairRead \/ PairSeek

SpecPair == PairInit /\ [][PairNext]_vars

(***************************************************************************)
(* KArchive::guess_contents_folder (common.rs), on archives whose paths    *)
(* are texts.                                                              *)
(***************************************************************************)
\* backings of the archives that are asked
GuessBackings == 2

\* "contents"
ContentsText == <<99, 111, 110, 116, 101, 110, 116, 115>>

\* str::split_inclusive(pat).collect::<Vec<&str>>()[0]: the text up to the
\* end of the first pat, or the whole text when it has none
split_inclusive_first(text, pat) ==
    IF ~contains(text, pat) THEN text
    ELSE SubSeq(text, 1,
                SetMin({i \in 1..(Len(text) - Len(pat) + 1) :
                           SubSeq(text, i, i + Len(pat) - 1) = pat}) + Len(pat) - 1)

\* Iterator::find: the first path of the list that contains "contents"
find_contents(list) ==
    IF \A i \in 1..Len(list) : ~contains(list[i], ContentsText) THEN None
    ELSE Some(list[SetMin({i \in 1..Len(list) : contains(list[i], ContentsText)})])

\* the rest of guess_contents_folder for the list that list_files returned
guess_in(found) ==
    IF found = None THEN None ELSE Some(split_inclusive_first(found[1], ContentsText))

\* KArchive::guess_contents_folder: the list it went through and its result
guess_contents_folder(self) ==
    {[list |-> list, ret |-> guess_in(find_contents(list))] : list \in list_files(self)}

\* data/contents/x, data/x, a/mycontents/contents/z, a/contents_old/w,
\* contents, c/Contents/u
GuessPaths ==
    {<<100, 97, 116, 97, 47, 99, 111, 110, 116, 101, 110, 116, 115, 47, 120>>,
     <<100, 97, 116, 97, 47, 120>>,
     <<97, 47, 109, 121, 99, 111, 110, 116, 101, 110, 116, 115, 47, 99, 111, 110, 116, 101, 110, 116, 115, 47, 122>>,
     <<97, 47, 99, 111, 110, 116, 101, 110, 116, 115, 95, 111, 108, 100, 47, 119>>,
     <<99, 111, 110, 116, 101, 110, 116, 115>>,
     <<99, 47, 67, 111, 110, 116, 101, 110, 116, 115, 47, 117>>}

GuessIndexes == {dom \in SUBSET GuessPaths : Cardinality(dom) <= 2}

GuessInit ==
    /\ CipherIdle /\ KFileIdle /\ ArchiveIdle /\ ParserIdle /\ MountIdle
    /\ pair = <<>> /\ probe = <<>> /\ chain = <<>> /\ run = <<>>
    /\ \E n \in 0..GuessBackings :
          \E doms \in [1..n -> GuessIndexes] :
              guess = [self |-> [i \in 1..n |->
                                    KArchive_new("A", [p \in doms[i] |-> EntryInfo("A", "p")],
                                                 None)[1]],
                       asked |-> FALSE]

\* archive.guess_contents_folder()
GuessContentsFolder ==
    /\ guess # <<>> /\ ~guess.asked
    /\ \E r \in guess_contents_folder(guess.self) :
          guess' = [self |-> guess.self, asked |-> TRUE, list |-> r.list, ret |-> r.ret]
    /\ UNCHANGED <<baseVars, mountVars, pair, probe, chain, run>>

GuessNext == GuessContentsFolder

SpecGuess == GuessInit /\ [][GuessNext]_vars

(***************************************************************************)
(* benchmark (common.rs), the latency probe, one iteration of its loop at  *)
(* a time.  The medium works: open, seek and read return no I/O error.     *)
(* Time is counted in ms; the clock does not go back.  The parsers call    *)
(* benchmark on files of which mount has read 4 bytes.                     *)
(***************************************************************************)
\* (0..10)
ProbeIterations == 10

\* Duration::from_millis(4)
TargetDuration == 4

\* the sizes of the probed files, and the ms an iteration can take
ProbeSizes == {4, 5}
ProbeDelays == {0, 2, 5}

\* the reader after bench_file.seek(SeekFrom::Start(loc))
probe_seek(file, loc) == [file EXCEPT !.pos = loc]

\* bench_file.read(&mut [0]): one byte, or none at the end of the file
probe_read(file) == [file EXCEPT !.pos = Min(file.len, file.pos + 1)]

\* bench_file.read_to_end(&mut buf): the bytes from the cursor to the end
read_to_end(file) == [j \in 1..Max(file.len - file.pos, 0) |-> DataByte(file.seed, file.pos + j)]

\* a return that reads on from where the last iteration left the cursor
read_from_cursor(file) == read_to_end(file)

\* seek(SeekFrom::Start(0)) and read_to_end
read_whole(file) == read_to_end(probe_seek(file, 0))

ProbeInit ==
    /\ CipherIdle /\ KFileIdle /\ ArchiveIdle /\ ParserIdle /\ MountIdle
    /\ pair = <<>> /\ guess = <<>> /\ chain = <<>> /\ run = <<>>
    /\ \E size \in ProbeSizes, seed \in Seeds :
          probe = [file |-> [len |-> size, pos |-> 0, seed |-> seed], i |-> 0, elapsed |-> 0,
                   done |-> FALSE, ret |-> None]

\* one iteration of the loop: the seek to a sampled place, the read, and the
\* check of the time, with the return when it is over the target
ProbeIteration ==
    /\ probe # <<>> /\ ~probe.done /\ probe.i < ProbeIterations
    /\ \E loc \in 0..(probe.file.len - 1), took \in ProbeDelays :
          probe' =
            IF probe.elapsed + took > TargetDuration
            THEN [probe EXCEPT !.file = probe_read(probe_seek(probe.file, loc)),
                               !.i = @ + 1,
                               !.elapsed = @ + took,
                               !.done = TRUE,
                               !.ret = Some(read_whole(probe_read(probe_seek(probe.file, loc))))]
            ELSE [probe EXCEPT !.file = probe_read(probe_seek(probe.file, loc)),
                               !.i = @ + 1,
                               !.elapsed = @ + took]
    /\ UNCHANGED <<baseVars, mountVars, pair, guess, chain, run>>

\* the loop is over: Ok(None)
ProbeReturnNone ==
    /\ probe # <<>> /\ ~probe.done /\ probe.i = ProbeIterations
    /\ probe' = [probe EXCEPT !.done = TRUE]
    /\ UNCHANGED <<baseVars, mountVars, pair, guess, chain, run>>

ProbeNext == ProbeIteration \/ ProbeReturnNone

SpecProbe == ProbeInit /\ [][ProbeNext]_vars

(***************************************************************************)
(* tests::test_reverse (mar.rs): from an iv, the next subkey is made again *)
(* and again, and each time the way back is taken.                         *)
(***************************************************************************)
\* subkeys made from one iv
MaxChain == 3

\* 16-bit halves of the keys and ivs: the ends of the range, and the values
\* around the bits that a rotation by 5 moves from one half to the other
Halves == {0, 1, 31, 2047, 2048, 65535}
Words == {<<hi, lo>> : hi \in Halves, lo \in Halves}

ChainInit ==
    /\ CipherIdle /\ KFileIdle /\ ArchiveIdle /\ ParserIdle /\ MountIdle
    /\ pair = <<>> /\ probe = <<>> /\ guess = <<>> /\ run = <<>>
    /\ \E key \in Words, iv \in Words :
          chain = [key |-> key, subkey |-> iv, before |-> iv, back |-> iv, n |-> 0]

\* one turn of the loop of test_reverse
ChainNext ==
    /\ chain # <<>> /\ chain.n < MaxChain
    /\ chain' = [key |-> chain.key,
                 subkey |-> next_subkey(chain.subkey, chain.key),
                 before |-> chain.subkey,
                 back |-> prev_subkey(next_subkey(chain.subkey, chain.key), chain.key),
                 n |-> chain.n + 1]
    /\ UNCHANGED <<baseVars, mountVars, pair, probe, guess, run>>

SpecChain == ChainInit /\ [][ChainNext]_vars

(***************************************************************************)
(* mount, call by call (lib.rs, lst.rs, info.rs, cab.rs).  The calls in    *)
(* progress are the frames of a stack: an index parser in its loop over    *)
(* the files it names, cab::parse in its loop over the arcfile, and        *)
(* read_folder in its loop over the entries of a folder.  The process can  *)
(* nest MaxDepth calls.                                                    *)
(***************************************************************************)
MaxDepth == 5

\* `param as u64` and `param as i64` of an i32: the sign is extended.  The
\* u64 is four 16-bit parts, the most significant first.
as_u64(param) ==
    IF param >= 0 THEN <<0, 0, param \div 65536, param % 65536>>
    ELSE <<65535, 65535, 65535 - ((-(param + 1)) \div 65536),
           65535 - ((-(param + 1)) % 65536)>>

\* cab::read_file_name once read_until has returned r: [err, pos, name]
cab_name_read(r) ==
    IF r.buf = <<>> \/ r.buf[Len(r.buf)] # 0
    THEN [err |-> "Other", pos |-> r.pos, name |-> <<>>]
    ELSE IF ~from_utf8_ok(SubSeq(r.buf, 1, Len(r.buf) - 1))
    THEN [err |-> "Utf8", pos |-> r.pos, name |-> <<>>]
    ELSE [err |-> "", pos |-> r.pos, name |-> SubSeq(r.buf, 1, Len(r.buf) - 1)]

cab_read_file_name(b, pos) == cab_name_read(read_until_0(b, pos))

\* PathBuf::push: an absolute name replaces the path
push(full_path, name) ==
    IF name # <<>> /\ name[1] = 47 THEN name
    ELSE IF full_path = <<>> THEN name
    ELSE IF name = <<>> THEN full_path
    ELSE full_path \o <<47>> \o name

\* the first three statements of read_folder: [err, pos, action, name, param]
folder_param(a, nm, param) ==
    IF param.err # "" THEN [err |-> param.err]
    ELSE [err |-> "", pos |-> param.pos, action |-> a.v, name |-> nm.name, param |-> param.v]

folder_named(b, a, nm) ==
    IF nm.err # "" THEN [err |-> nm.err] ELSE folder_param(a, nm, read_i32(b, nm.pos))

folder_action(b, a) ==
    IF a.err # "" THEN [err |-> a.err] ELSE folder_named(b, a, cab_read_file_name(b, a.pos))

folder_head(b, pos) == folder_action(b, read_u8(b, pos))

\* Cursor::seek(SeekFrom::Current(n)): [ok, pos]
Cursor_seek_current(pos, n) ==
    IF pos + n < 0 THEN [ok |-> FALSE, pos |-> pos] ELSE [ok |-> TRUE, pos |-> pos + n]

\* the process ends on a stack overflow
Aborted == [status |-> "Abort", parser |-> "none", archives |-> <<>>]

\* lst::parse and info::parse up to their loops
lst_entered(path, lst_file) ==
    IF lst_file.err # "" THEN [ret |-> MountErr("ULST")]
    ELSE [frame |-> [fn |-> "index", parser |-> "ULST", path |-> path,
                     names |-> lst_file.files, i |-> 1, arcs |-> init_empty]]

info_entered(path, r) ==
    IF r.panic THEN [ret |-> MountPanic("INFO")]
    ELSE [frame |-> [fn |-> "index", parser |-> "INFO", path |-> path,
                     names |-> r.file_names, i |-> 1, arcs |-> init_empty]]

\* mount once the parser is chosen: the result of a parser that calls
\* nothing, or the frame of a parser at the start of its loop
mount_entered(dir, path, parser) ==
    CASE parser = "ULST" -> lst_entered(path, LstFile_read(Content(dir[path])))
      [] parser = "INFO" ->
            IF ~from_utf8_ok(Content(dir[path])) THEN [ret |-> MountErr("INFO")]
            ELSE info_entered(path, info_file_names(lines(Content(dir[path])), 1, <<>>))
      [] parser = "CAB" /\ dir[path].kind = "CAB" ->
            [frame |-> [fn |-> "cab", parser |-> "CAB", path |-> path, pos |-> 0,
                        files |-> <<>>]]
      [] OTHER -> [ret |-> mount_with(dir, path, parser)]

\* mount(path), up to the first call or loop of its parser
mount_called(dir, path) ==
    IF path \notin DOMAIN dir \/ Len(Content(dir[path])) < 4 THEN [ret |-> MountErr("none")]
    ELSE mount_entered(dir, path, select_parser(SubSeq(Content(dir[path]), 1, 4), path))

\* the callee's result r comes back to the frame on top of stack, an index
\* parser in its loop, or to the program; a panic unwinds every frame
returned(r, stack) ==
    IF stack = <<>> THEN [stack |-> <<>>, result |-> Some(r)]
    ELSE IF r.status = "Abort" THEN [stack |-> <<>>, result |-> Some(r)]
    ELSE IF r.status = "Panic" THEN [stack |-> <<>>, result |-> Some(MountPanic(stack[1].parser))]
    ELSE [stack |-> [stack EXCEPT ![Len(stack)].i = @ + 1,
                                  ![Len(stack)].arcs =
                                      IF r.status = "Ok" THEN add_archive(@, r.archives) ELSE @],
          result |-> None]

\* the frame of cab::parse, below the frames of read_folder
CabAt(stack) == SetMax({k \in 1..Len(stack) : stack[k].fn = "cab"})

\* read_folder returns Ok(()) to the frame on top of stack: a folder goes on
\* with its next entry
folder_returned(stack) ==
    IF stack[Len(stack)].fn = "folder"
    THEN [stack EXCEPT ![Len(stack)].entries = @ - 1]
    ELSE stack

\* read_folder called by the frame on top of stack, head being what its first
\* three statements read: [stack, result, back]
read_folder(stack, full_path, head) ==
    CASE head.err # "" ->
            returned(MountErr("CAB"), SubSeq(stack, 1, CabAt(stack) - 1))
      [] head.err = "" /\ head.action = 0 ->
            IF ~Cursor_seek_current(head.pos, head.param).ok
            THEN returned(MountErr("CAB"), SubSeq(stack, 1, CabAt(stack) - 1))
            ELSE [stack |-> folder_returned(
                               [stack EXCEPT ![CabAt(stack)].pos =
                                                 Cursor_seek_current(head.pos, head.param).pos,
                                             ![CabAt(stack)].files =
                                                 insert(@, push(full_path, head.name),
                                                        [size |-> as_u64(head.param),
                                                         offset |-> head.pos,
                                                         cipher |-> None])]),
                  result |-> None]
      [] head.err = "" /\ head.action = 1 ->
            IF Len(stack) >= MaxDepth THEN returned(Aborted, stack)
            ELSE [stack |-> Append([stack EXCEPT ![CabAt(stack)].pos = head.pos],
                                   [fn |-> "folder", full_path |-> push(full_path, head.name),
                                    entries |-> head.param]),
                  result |-> None]
      [] OTHER -> returned(MountPanic("CAB"), stack)

(***************************************************************************)
(* A directory of index files, a cabinet and an archive, and one mount.    *)
(***************************************************************************)
IdxA == <<105>>
IdxB == <<106>>
CabName == <<99>>

\* the bytes of an i32, little-endian
i32le(x) ==
    IF x >= 0 THEN u32le(x)
    ELSE [k \in 1..4 |-> 255 - u32le(-(x + 1))[k]]

\* a file record and a folder record of an arcfile
Leaf(name, param, payload) == <<0>> \o name \o <<0>> \o i32le(param) \o payload
Folder(name, entries, body) == <<1>> \o name \o <<0>> \o i32le(entries) \o body

\* arcfiles: none; one file; a folder of two files and a file; a file whose
\* param leads back to its own record; one whose param leads before the
\* start; a folder whose first file leads back to the folder; an action that
\* is neither 0 nor 1; a param that leads beyond the end; a second file that
\* leads back to itself; a folder with a negative count; a cut record
Arcfiles ==
    { <<>>,
      Leaf(<<97>>, 2, <<7, 8>>),
      Folder(<<100>>, 2, Leaf(<<97>>, 1, <<7>>) \o Leaf(<<98>>, 0, <<>>)) \o Leaf(<<99>>, 0, <<>>),
      Leaf(<<97>>, -7, <<>>),
      Leaf(<<97>>, -8, <<>>),
      Folder(<<100>>, 2, Leaf(<<97>>, -14, <<>>)),
      <<2, 97, 0>> \o i32le(0),
      Leaf(<<97>>, 5, <<7>>),
      Leaf(<<97>>, 1, <<7>>) \o Leaf(<<98>>, -7, <<>>),
      Folder(<<100>>, -1, <<>>),
      <<0, 97, 0, 1>> }

\* the files an index can name
RunNames == {IdxA, IdxB, CabName, QarName}

IndexFile(kind, names) ==
    IF kind = "INFO"
    THEN [kind |-> "INFO", eol |-> <<10>>,
          lines |-> [k \in 1..Len(names) |-> FilePrefix \o names[k]]]
    ELSE [kind |-> "ULST", names |-> names, cut |-> LstLen(names)]

\* the second index names the first, itself twice, or the archive
SecondIndexes == {<<IdxA>>, <<IdxB, IdxB>>, <<QarName>>}

RunInit ==
    /\ CipherIdle /\ KFileIdle /\ ArchiveIdle /\ ParserIdle /\ MountIdle
    /\ pair = <<>> /\ probe = <<>> /\ guess = <<>> /\ chain = <<>>
    /\ \E kind \in {"INFO", "ULST"}, names \in SeqsUpTo(RunNames, MaxSiblings),
          second \in SecondIndexes, arcfile \in Arcfiles, path \in {IdxA, CabName} :
          \* a file the mount does not come to holds one content only
          /\ path = CabName => (kind = "INFO" /\ names = <<>>)
          /\ (\A k \in 1..Len(names) : names[k] # IdxB) => second = <<QarName>>
          /\ (path # CabName /\ \A k \in 1..Len(names) : names[k] # CabName)
                => arcfile = <<>>
          /\ \E dir \in {(IdxA :> IndexFile(kind, names))
                          @@ (IdxB :> IndexFile("INFO", second))
                          @@ (CabName :> [kind |-> "CAB", arcfile |-> arcfile])
                          @@ (QarName :> ArchiveFile(Whole1("QAR")))} :
                run = [dir |-> dir, opened |-> [n \in DOMAIN dir |-> mount_called(dir, n)],
                       path |-> path, stack |-> <<>>, result |-> None, back |-> FALSE,
                       turns |-> 0]

\* mount(path) on the files of r.dir.  The files do not change while the
\* mount runs, and r.opened holds what mount_called makes of each of them.
mount_opened(r, path) ==
    IF path \in DOMAIN r.opened THEN r.opened[path] ELSE mount_called(r.dir, path)

\* mount(path) is called, by the program or by the index parser on top of the
\* stack for the next file it names.  A call nested deeper than the process
\* allows fails at File::open (too many open files) or overflows the stack.
RunCall ==
    /\ run # <<>> /\ run.result = None
    /\ \/ run.stack = <<>>
       \/ /\ run.stack # <<>>
          /\ run.stack[Len(run.stack)].fn = "index"
          /\ run.stack[Len(run.stack)].i <= Len(run.stack[Len(run.stack)].names)
    /\ \E c \in {mount_opened(run, IF run.stack = <<>> THEN run.path
                                    ELSE run.stack[Len(run.stack)].names[
                                             run.stack[Len(run.stack)].i])} :
          IF "ret" \in DOMAIN c
          THEN run' = [run EXCEPT !.stack = returned(c.ret, run.stack).stack,
                                  !.result = returned(c.ret, run.stack).result]
          ELSE IF Len(run.stack) < MaxDepth
          THEN run' = [run EXCEPT !.stack = Append(@, c.frame)]
          ELSE \E r \in {MountErr("none"), Aborted} :
                  run' = [run EXCEPT !.stack = returned(r, run.stack).stack,
                                     !.result = returned(r, run.stack).result]
    /\ UNCHANGED <<baseVars, mountVars, pair, probe, guess, chain>>

\* the loop of an index parser is over: Ok(archive)
RunLoopEnd ==
    /\ run # <<>> /\ run.result = None /\ run.stack # <<>>
    /\ run.stack[Len(run.stack)].fn = "index"
    /\ run.stack[Len(run.stack)].i > Len(run.stack[Len(run.stack)].names)
    /\ \E r \in {returned(MountOk(run.stack[Len(run.stack)].parser,
                                  run.stack[Len(run.stack)].arcs),
                          SubSeq(run.stack, 1, Len(run.stack) - 1))} :
          run' = [run EXCEPT !.stack = r.stack, !.result = r.result]
    /\ UNCHANGED <<baseVars, mountVars, pair, probe, guess, chain>>

\* read_folder is called: by cab::parse while the cursor is not at arcsize,
\* by read_folder while the folder has entries left.  run.turns is the number
\* of these calls modulo 2: a call that leaves the cursor, the files and the
\* stack as they were is a step all the same.
RunReadFolder ==
    /\ run # <<>> /\ run.result = None /\ run.stack # <<>>
    /\ \/ /\ run.stack[Len(run.stack)].fn = "cab"
          /\ run.stack[Len(run.stack)].pos
                # Len(run.dir[run.stack[Len(run.stack)].path].arcfile)
       \/ /\ run.stack[Len(run.stack)].fn = "folder"
          /\ run.stack[Len(run.stack)].entries > 0
    /\ \E head \in {folder_head(run.dir[run.stack[CabAt(run.stack)].path].arcfile,
                                run.stack[CabAt(run.stack)].pos)} :
         \E r \in {read_folder(run.stack,
                               IF run.stack[Len(run.stack)].fn = "folder"
                               THEN run.stack[Len(run.stack)].full_path ELSE <<>>,
                               head)} :
            run' = [run EXCEPT !.stack = r.stack, !.result = r.result,
                               !.back = @ \/ (head.err = "" /\ head.action = 0
                                              /\ head.param < 0),
                               !.turns = (@ + 1) % 2]
    /\ UNCHANGED <<baseVars, mountVars, pair, probe, guess, chain>>

\* a folder has no entries left: read_folder returns Ok(())
RunFolderEnd ==
    /\ run # <<>> /\ run.result = None /\ run.stack # <<>>
    /\ run.stack[Len(run.stack)].fn = "folder"
    /\ run.stack[Len(run.stack)].entries <= 0
    /\ run' = [run EXCEPT !.stack = folder_returned(SubSeq(run.stack, 1, Len(run.stack) - 1))]
    /\ UNCHANGED <<baseVars, mountVars, pair, probe, guess, chain>>

\* the cursor is at arcsize: cab::parse returns the archive with its buffer
RunCabEnd ==
    /\ run # <<>> /\ run.result = None /\ run.stack # <<>>
    /\ run.stack[Len(run.stack)].fn = "cab"
    /\ run.stack[Len(run.stack)].pos = Len(run.dir[run.stack[Len(run.stack)].path].arcfile)
    /\ \E r \in {returned(MountOk("CAB",
                                  KArchive_new(run.stack[Len(run.stack)].path,
                                               run.stack[Len(run.stack)].files,
                                               Some(Len(run.dir[run.stack[Len(run.stack)].path].arcfile)))),
                          SubSeq(run.stack, 1, Len(run.stack) - 1))} :
          run' = [run EXCEPT !.stack = r.stack, !.result = r.result]
    /\ UNCHANGED <<baseVars, mountVars, pair, probe, guess, chain>>

RunNext == RunCall \/ RunLoopEnd \/ RunReadFolder \/ RunFolderEnd \/ RunCabEnd

\* the program runs on as long as it has a step to take
SpecRun == RunInit /\ [][RunNext]_vars /\ WF_vars(RunNext)

(***************************************************************************)
(* Properties of the cipher.                                               *)
(***************************************************************************)
\* subkey of block n: subkey_0 = rotl5(key + iv), subkey_n = rotl5(key + subkey_{n-1})
RECURSIVE SubkeyAt(_, _, _)
SubkeyAt(key, iv, n) ==
    IF n = 0 THEN next_subkey(iv, key) ELSE next_subkey(SubkeyAt(key, iv, n - 1), key)

\* C1: a fresh cipher crypting its buffer from position 0, split into
\* consecutive chunks in any way (byte by byte, any chunk lengths, one shot),
\* produces the bytes reference_crypt produces: every byte handed out so far
\* equals the reference's, and so does the whole buffer once it is all fed.
C1_ChunkingMatchesReference ==
    fresh => /\ Len(out) = fed
             /\ \A j \in 1..Len(out) : out[j] = reference[j]

\* C1's case: a buffer with a partial final block, crypted to its end from a
\* fresh cipher in more than one chunk
C1_Witness ==
    /\ fresh
    /\ params.size > 4 /\ params.size % 4 = 3
    /\ fed = params.size
    /\ nchunks = 2

\* C2: after any seeks and crypts, seek(p) followed by crypting the window
\* [p, p+L) gives bytes [p, p+L) of the reference crypt of the whole input,
\* for every p and L with p + L <= size.
C2_SeekWindowMatchesReference ==
    ~fresh => \A j \in 1..Len(out) : out[j] = reference[winStart + j]

\* C3: the final-block quirk: with size % 4 = r in 1..3 and the stream crypted
\* from 0 to its end, byte size-r is XORed with each of the first r bytes of
\* keystream block size \div 4, the bytes after it are the input's, and the
\* cipher's position is size.
C3_FinalBlockQuirk ==
    LET size == params.size
        r == size % 4
        key_block == to_le_bytes(SubkeyAt(params.key, params.iv, size \div 4))
    IN  (fresh /\ fed = size /\ r # 0) =>
            /\ out[size - r + 1] = XorFold(DataByte(params.seed, size - r + 1), key_block, r)
            /\ \A j \in (size - r + 2)..size : out[j] = DataByte(params.seed, j)
            /\ cipher.pos = size

\* C3's case: two tail bytes after the XORed one, reached byte by byte
C3_Witness ==
    /\ fresh
    /\ params.size > 4 /\ params.size % 4 = 3
    /\ fed = params.size
    /\ out[params.size] = DataByte(params.seed, params.size)
    /\ out[params.size - 2] # DataByte(params.seed, params.size - 2)

\* the window starts inside the final partial block, off its first byte
InFinalBlockUnaligned == winStart % 4 # 0 /\ winStart > params.size - (params.size % 4)

Diag_C2_Elsewhere ==
    (~fresh /\ ~InFinalBlockUnaligned) => \A j \in 1..Len(out) : out[j] = reference[winStart + j]

\* n more steps of the recurrence from subkey s; the range is halved and each
\* half's value computed before the next half starts
RECURSIVE SubkeyAfter(_, _, _)
SubkeyAfter(s, key, n) ==
    IF n = 0 THEN s
    ELSE IF n = 1 THEN rotate_left(wrapping_add(key, s))
    ELSE CHOOSE r \in {SubkeyAfter(h, key, n - (n \div 2)) :
                          h \in {SubkeyAfter(s, key, n \div 2)}} : TRUE

\* the subkey of block n of the recurrence
BlockSubkey(n) == SubkeyAfter(params.iv, params.key, n + 1)

\* the checkpoint map holds (0, subkey_0), only multiples of 0x1000, and at
\* every key b the subkey of block b/4
CheckpointsRight ==
    cipher # <<>> =>
        LET subkeys == cipher.keystream.subkeys
        IN  /\ 0 \in DOMAIN subkeys
            /\ subkeys[0] = rotate_left(wrapping_add(params.key, params.iv))
            /\ \A b \in DOMAIN subkeys :
                   /\ b % 4096 = 0
                   /\ subkeys[b] = BlockSubkey(b \div 4)

\* a step keeps every checkpoint of the map, with its value
CheckpointsKept ==
    cipher # <<>> =>
        \A b \in DOMAIN cipher.keystream.subkeys :
            /\ b \in DOMAIN cipher'.keystream.subkeys
            /\ cipher'.keystream.subkeys[b] = cipher.keystream.subkeys[b]

\* C23: in every cipher state reachable by crypts and seeks, the checkpoint
\* map contains key 0 mapped to rotate_left_5(key + iv), every key of the map
\* is a multiple of 0x1000, every key b maps to the subkey of block b/4 of the
\* recurrence, and no step replaces a checkpoint by a different value.
C23_CheckpointMap == []CheckpointsRight /\ [][CheckpointsKept]_vars

\* C23's case: the checkpoint of block 1024 is in the map and the cipher has
\* come back to the first blocks after it was inserted
Witness_C23_CheckpointAt4096 ==
    /\ cipher # <<>>
    /\ 4096 \in DOMAIN cipher.keystream.subkeys
    /\ cipher.pos < 2048
    /\ cipher.current_iterator # None

(***************************************************************************)
(* Properties of the virtual file.                                         *)
(***************************************************************************)
Encrypted == kfile.info.cipher # None

\* C4: with a cipher attached, after any sequence of successful reads and
\* seeks the cipher's position is the logical position clamped to the size:
\* cipher.pos = min(pos, info.size).
C4_CipherMirrorsPosition ==
    (Encrypted /\ allok) =>
        kfile.info.cipher[1].pos = Min(kfile.pos, kfile.info.size)

\* C5: a read into a buffer of length n at position pos returns k with
\* k <= min(n, size - pos) and advances pos by exactly k; at pos >= size it
\* returns 0 and leaves the underlying reader where it was; so a read never
\* moves pos past size and the bytes it takes from the backing lie in
\* [offset, offset + size).
C5_ReadStaysInsideEntry ==
    lastop.op = "read" =>
        /\ kfile.pos = lastop.pos + lastop.ret
        /\ Len(lastop.buf) = lastop.ret
        /\ lastop.pos >= kfile.info.size =>
              lastop.ret = 0 /\ kfile.file.pos = lastop.file_pos
        /\ lastop.pos < kfile.info.size =>
              /\ lastop.ret <= Min(lastop.n, kfile.info.size - lastop.pos)
              /\ kfile.pos <= kfile.info.size
              /\ lastop.file_pos >= kfile.info.offset
              /\ lastop.file_pos + lastop.ret <= kfile.info.offset + kfile.info.size
              /\ kfile.file.pos = lastop.file_pos + lastop.ret

\* a read that asked for more than the entry had left, on an encrypted and on
\* a plain entry alike, and got exactly what was left
C5_Witness ==
    /\ lastop.op = "read"
    /\ lastop.pos > 0
    /\ lastop.pos < kfile.info.size
    /\ lastop.n > kfile.info.size - lastop.pos
    /\ lastop.ret = kfile.info.size - lastop.pos
    /\ Encrypted

\* C6: a seek whose target (n for Start, size + n for End, pos + n for
\* Current) is negative fails with InvalidInput; a seek whose target is >= 0,
\* past the end included, succeeds and returns the target; a read at a
\* position >= size returns 0.
C6_SeekBounds ==
    /\ lastop.op = "seek" =>
          /\ lastop.target < 0 => (~lastop.ok /\ lastop.ret = "InvalidInput")
          /\ lastop.target >= 0 => (lastop.ok /\ lastop.ret = lastop.target
                                     /\ kfile.pos = lastop.target)
    /\ (lastop.op = "read" /\ lastop.pos >= kfile.info.size) => lastop.ret = 0

\* C6 holds for entries without a cipher
Diag_C6_Plain == ~Encrypted => C6_SeekBounds

\* C4 and C6 can only fail once the cipher has been at, or asked beyond, the
\* end of the entry
Diag_C6_NegativeTargetsFail ==
    (lastop.op = "seek" /\ lastop.target < 0) => (~lastop.ok /\ lastop.ret = "InvalidInput")

\* C24: in every VFile state reached by successful opens, reads and seeks, in
\* file mode and in buffer mode, the underlying reader's position equals
\* info.offset + pos.
C24_ReaderAtOffsetPlusPos ==
    (kfile # <<>> /\ allok) => kfile.file.pos = kfile.info.offset + kfile.pos

\* C24's case: a file-mode entry that starts 3 bytes into its backing, seeked
\* past its end and then back into the entry by a relative seek
Witness_C24_BackFromBeyondEnd ==
    /\ kfile # <<>> /\ allok
    /\ kfile.file.kind = "RealFile"
    /\ kfile.info.offset = 3
    /\ lastop.op = "seek" /\ lastop.from.kind = "Current" /\ lastop.from.n < 0
    /\ lastop.pos > kfile.info.size
    /\ kfile.pos > 0 /\ kfile.pos < kfile.info.size

\* the reader follows the logical position after failed operations as well
Diag_C24_AfterFailures ==
    kfile # <<>> => kfile.file.pos = kfile.info.offset + kfile.pos

\* C25: a seek that returns an error leaves the whole VFile unchanged: the
\* logical pos, the reader's position and, when a cipher is attached, the
\* cipher's position, current iterator and checkpoint map are after the failed
\* seek what they were before it.
C25_FailedSeekChangesNothing ==
    [][(lastop'.op = "seek" /\ ~lastop'.ok) => kfile' = kfile]_vars

\* a failed seek leaves pos, the reader and the checkpoint map as they were
Diag_C25_PositionsKept ==
    [][(lastop'.op = "seek" /\ ~lastop'.ok) =>
          /\ kfile'.pos = kfile.pos
          /\ kfile'.file = kfile.file
          /\ Encrypted =>
                kfile'.info.cipher[1].keystream = kfile.info.cipher[1].keystream]_vars

\* without a cipher a failed seek changes nothing
Diag_C25_Plain ==
    [][(lastop'.op = "seek" /\ ~lastop'.ok /\ ~Encrypted) => kfile' = kfile]_vars

\* as long as the cipher's position is the logical position clamped to the
\* size, a failed seek changes nothing
Diag_C25_WhileMirrored ==
    [][(lastop'.op = "seek" /\ ~lastop'.ok /\ Encrypted
          /\ kfile.info.cipher[1].pos = Min(kfile.pos, kfile.info.size)
          /\ kfile.pos <= kfile.info.size)
        => kfile' = kfile]_vars

(***************************************************************************)
(* Properties of the archive.                                              *)
(***************************************************************************)
Has(i, p) == p \in DOMAIN archive[i].files

\* the backings that contain p
Holders(p) == {i \in 1..Len(archive) : Has(i, p)}

\* the number of entries of the backings before backing i
RECURSIVE EntriesBefore(_)
EntriesBefore(i) ==
    IF i <= 1 THEN 0
    ELSE EntriesBefore(i - 1) + Cardinality(DOMAIN archive[i - 1].files)

\* C7: open(p) resolves p in the first backing, in backing order, that
\* contains p: the file returned has that backing's offset, size and storage,
\* and a later backing never shadows an earlier one.
C7_FirstBackingWins ==
    (answer.op = "open" /\ answer.ret.ok) =>
        \E i \in Holders(answer.path) :
            /\ \A j \in Holders(answer.path) : i <= j
            /\ answer.ret.kfile.name = answer.path
            /\ answer.ret.kfile.info = archive[i].files[answer.path]
            /\ answer.ret.kfile.pos = 0
            /\ answer.ret.kfile.file.pos = archive[i].files[answer.path].offset
            /\ answer.ret.kfile.file.len = FileLen(archive[i].path)
            /\ answer.ret.kfile.file.kind =
                   IF archive[i].buffer = None THEN "RealFile" ELSE "Buffer"

\* both backings of [A, B] contain the path, with different entries and
\* different storage, and open has returned a file
C7_Witness ==
    /\ answer.op = "open" /\ answer.ret.ok
    /\ Len(archive) = 2
    /\ Holders(answer.path) = {1, 2}
    /\ archive[1].path = "A" /\ archive[2].path = "B"
    /\ archive[1].buffer = None /\ archive[2].buffer # None

\* C8 as stated: exists(p) is true iff some backing contains p, and open(p)
\* fails with NotFound iff exists(p) is false.
C8_NotFoundIffAbsent ==
    /\ answer.op = "exists" => (answer.ret <=> Holders(answer.path) # {})
    /\ answer.op = "open" =>
          ((~answer.ret.ok /\ answer.ret.err = "NotFound")
              <=> Holders(answer.path) = {})

\* C8, amended: exists(p) is true iff some backing contains p; when no
\* backing contains p, open(p) fails with NotFound; when one does, open(p)
\* fails only if the first such backing has no buffer and its source file
\* cannot be opened, and then with that I/O error, whatever its kind.
C8_NotFoundWhenAbsent ==
    /\ answer.op = "exists" => (answer.ret <=> Holders(answer.path) # {})
    /\ answer.op = "open" =>
          /\ Holders(answer.path) = {} =>
                (~answer.ret.ok /\ answer.ret.err = "NotFound")
          /\ Holders(answer.path) # {} =>
                \E i \in Holders(answer.path) :
                    /\ \A j \in Holders(answer.path) : i <= j
                    /\ answer.ret.ok <=> (archive[i].buffer # None \/ answer.io = "Ok")
                    /\ ~answer.ret.ok => answer.ret.err = answer.io

\* an open that failed with NotFound on an archive of two backings, neither
\* of which has the path, though they have another one
C8_Witness ==
    /\ answer.op = "open" /\ ~answer.ret.ok /\ answer.ret.err = "NotFound"
    /\ Len(archive) = 2
    /\ Holders(answer.path) = {}
    /\ \E q \in EntryPaths : Holders(q) = {2}

\* C9: list_files returns the entry paths of each backing, backing after
\* backing: its length is the sum of the entry counts, the paths of backing i
\* come before those of backing i + 1, and a path appears once for each
\* backing that contains it.
C9_ListConcatenatesBackings ==
    answer.op = "list_files" =>
        /\ Len(answer.ret) = EntriesBefore(Len(archive) + 1)
        /\ \A i \in 1..Len(archive) :
              {answer.ret[k] : k \in (EntriesBefore(i) + 1)..EntriesBefore(i + 1)}
                  = DOMAIN archive[i].files
        /\ \A p \in EntryPaths :
              Cardinality({k \in 1..Len(answer.ret) : answer.ret[k] = p})
                  = Cardinality(Holders(p))

\* a listing of two backings with two entries each, the same paths in both
C9_Witness ==
    /\ answer.op = "list_files"
    /\ Len(archive) = 2
    /\ \A p \in EntryPaths : Holders(p) = {1, 2}
    /\ Len(answer.ret) = 4
    /\ answer.ret[1] # answer.ret[3]

(***************************************************************************)
(* Properties of the parsers.                                              *)
(***************************************************************************)
\* the top-level header of the input is whole
HeaderRead == input.cut >= Len(Header(input.format, input.n))

\* record k and the records before it are sound and whole in the input
Whole(k) ==
    \A j \in 1..k : VariantOf(input, j) \notin Damaged /\ Len(Records(input, j)) <= input.cut

\* the key the parser of the format lists record k under
Key(format, k) ==
    CASE format = "D2" -> StoredName(k, VariantOf(input, k))
      [] format \in {"QAR", "BAR"} /\ VariantOf(input, k) = "slash" ->
            <<47, 46, 47, 100, 47, 96 + k>>
      [] OTHER -> <<100, 47, 96 + k>>

\* the entry the index holds for record k
Accepted(k) ==
    /\ Key(input.format, k) \in DOMAIN parsed.files
    /\ parsed.files[Key(input.format, k)] =
           [size |-> PayloadLen(k),
            offset |-> Len(Records(input, k)) - PayloadLen(k),
            cipher |-> None]

\* parse has returned the index, with the entries of the records before the
\* first failure
PartialIndex ==
    /\ parsed.status = "Ok"
    /\ \A k \in 1..input.n : (Whole(k) /\ VariantOf(input, k) # "dir") => Accepted(k)

\* C10: once the top-level header has been read, a failure in an entry
\* (truncation at any byte, a name without NUL, invalid UTF-8, a wrong fixed
\* field) makes the QAR, BAR, D2 and MAR parsers return success with the
\* entries accepted before it: never an error, never a panic.
C10_EntryFailureGivesPartialIndex ==
    (parsed.status # "none" /\ HeaderRead) => PartialIndex

\* C10 holds of the QAR and BAR parsers
Diag_C10_QarBar ==
    input.format \in {"QAR", "BAR"} => C10_EntryFailureGivesPartialIndex

\* C10 fails by a panic only
Diag_C10_UnlessPanic ==
    parsed.status # "Panic" => C10_EntryFailureGivesPartialIndex

\* the D2 parser panics on a wrong first byte only, the MAR parser on an
\* unknown tag or on an input that ends right after a tag 1 or 2
Diag_C10_Panics ==
    parsed.status = "Panic" =>
        \/ input.format = "D2" /\ input.variant = "badfixed"
        \/ input.format = "MAR" /\ input.variant = "badfixed"
        \/ input.format = "MAR" /\ FileBytes(input)[input.cut] \in {1, 2}

\* the input file is whole: nothing was cut off
Uncut == input.cut = Len(WholeFile(input))

\* C11: the MAR entry loop dispatches on the tag byte: 0x01 records a file
\* entry, 0x02 reads a directory name and records nothing, 0xFF ends the
\* parse with every entry read so far, and any other tag stops the parse,
\* which returns the entries read so far as a successful parse.
C11_MarTagDispatch ==
    (input.format = "MAR" /\ parsed.status # "none" /\ Uncut) =>
        /\ parsed.status = "Ok"
        /\ \A k \in 1..input.n :
              /\ (Whole(k) /\ VariantOf(input, k) # "dir") => Accepted(k)
              /\ VariantOf(input, k) = "dir" => Key("MAR", k) \notin DOMAIN parsed.files
              /\ ~Whole(k) => Key("MAR", k) \notin DOMAIN parsed.files

\* C11 holds of the whole MAR files whose tags are 0x01, 0x02 and 0xFF
Diag_C11_KnownTags ==
    input.variant # "badfixed" => C11_MarTagDispatch

\* C12: every entry of the index a parser returns, for a whole input and for
\* one cut inside a payload alike, lies in its backing stream:
\* offset + size <= length of the file.
C12_EntryInsideBacking ==
    parsed.status = "Ok" =>
        \A name \in DOMAIN parsed.files :
            parsed.files[name].offset + parsed.files[name].size <= input.cut

\* C12 holds of the files that are whole
Diag_C12_Uncut == (Uncut /\ input.odd = 0) => C12_EntryInsideBacking

\* a stored name without its NUL, normalized: leading '.', '\' and '/'
\* stripped, every '\' replaced by '/'
RECURSIVE StripLeading(_)
StripLeading(name) ==
    IF name # <<>> /\ name[1] \in {46, 92, 47} THEN StripLeading(Tail(name)) ELSE name

Normalized(name) == [i \in 1..Len(StripLeading(name)) |->
                        IF StripLeading(name)[i] = 92 THEN 47 ELSE StripLeading(name)[i]]

\* C13: the key a parser inserts for a stored name is the name normalized:
\* trailing NUL dropped, leading '.', '\' and '/' stripped, '\' replaced by
\* '/'; so no key starts with '.', '\' or '/' and no key contains '\'.
C13_KeysAreNormalized ==
    parsed.status = "Ok" =>
        /\ \A key \in DOMAIN parsed.files :
              /\ key # <<>> => key[1] \notin {46, 92, 47}
              /\ \A i \in 1..Len(key) : key[i] # 92
        /\ \A k \in 1..input.n :
              (Whole(k) /\ VariantOf(input, k) # "dir") =>
                  Normalized(StoredName(k, VariantOf(input, k))) \in DOMAIN parsed.files

\* C13 holds of the MAR parser
Diag_C13_Mar == input.format = "MAR" => C13_KeysAreNormalized

\* C13 holds of the QAR and BAR parsers for the names that do not begin with '/'
Diag_C13_QarBar ==
    (input.format \in {"QAR", "BAR"} /\ input.variant # "slash") => C13_KeysAreNormalized

\* where record k of the input starts
RecordStart(k) == Len(Records(input, k - 1))

\* from the record start to the payload: the name field, the two fixed
\* numbers, the size and 4 skipped bytes
BarPayloadAt(k) == IF VariantOf(input, k) = "m39a" THEN 252 + 16 ELSE 256 + 16

\* C21: in a BAR file, a whole record whose name field has 252 bytes before
\* the numbers 3 and -1 is accepted with its size and with the offset 268
\* bytes after its start; one whose name field has 256 bytes is accepted with
\* the offset 272 bytes after its start; and the record after it is read
\* from the end of its payload.
C21_BarNameFieldQuirk ==
    (input.format = "BAR" /\ parsed.status # "none") =>
        \A k \in 1..input.n :
            (Whole(k) /\ VariantOf(input, k) \in {"m39a", "plain"}) =>
                /\ parsed.status = "Ok"
                /\ <<100, 47, 96 + k>> \in DOMAIN parsed.files
                /\ parsed.files[<<100, 47, 96 + k>>].size = PayloadLen(k)
                /\ parsed.files[<<100, 47, 96 + k>>].offset = RecordStart(k) + BarPayloadAt(k)
                /\ (k > 1 /\ VariantOf(input, k - 1) \in {"m39a", "plain"}) =>
                      parsed.files[<<100, 47, 96 + k>>].offset =
                          parsed.files[<<100, 47, 96 + (k - 1)>>].offset
                          + parsed.files[<<100, 47, 96 + (k - 1)>>].size + BarPayloadAt(k)

\* a BAR file of two records was parsed, the first with a name field of 252
\* bytes: its payload is at 12 + 268, and the second record, read from the
\* end of that payload, was accepted
Witness_C21_M39aThenPlain ==
    /\ input.format = "BAR" /\ input.n = 2 /\ input.odd = 1 /\ input.variant = "m39a"
    /\ Uncut /\ parsed.status = "Ok"
    /\ parsed.files[<<100, 47, 97>>].offset = 280
    /\ parsed.files[<<100, 47, 98>>].offset = 281 + 272

(***************************************************************************)
(* Properties of mount.                                                    *)
(***************************************************************************)
\* the bytes of the mounted file
MountedBytes == Content(fs.dir[fs.path])

\* the parser each magic number stands for
ParserOfMagic ==
    (<<81, 65, 82, 0>> :> "QAR") @@ (<<77, 65, 83, 77>> :> "MAR") @@ (<<85, 76, 83, 84>> :> "ULST")
    @@ (<<78, 65, 77, 69>> :> "INFO") @@ (<<77, 83, 67, 70>> :> "CAB")

\* name is <stem>.<ext> with a stem that is not empty
HasExt(name, ext) ==
    /\ Len(name) > Len(ext) + 1
    /\ SubSeq(name, Len(name) - Len(ext), Len(name)) = <<46>> \o ext

IsIndex ==
    /\ fs # <<>>
    /\ \/ /\ fs.dir[fs.path].kind = "ULST"
          /\ fs.dir[fs.path].cut >= LstLen(fs.dir[fs.path].names) - 16
       \/ /\ fs.dir[fs.path].kind = "INFO"
          /\ \A i \in 1..Len(fs.dir[fs.path].lines) :
                \E name \in SiblingNames : fs.dir[fs.path].lines[i] = FilePrefix \o name

Listed ==
    IF fs.dir[fs.path].kind = "ULST" THEN fs.dir[fs.path].names
    ELSE [i \in 1..Len(fs.dir[fs.path].lines) |->
             SubSeq(fs.dir[fs.path].lines[i], Len(FilePrefix) + 1, Len(fs.dir[fs.path].lines[i]))]

\* the backings of the siblings, from sibling i on, whose own mount succeeds
RECURSIVE BackingsFrom(_)
BackingsFrom(i) ==
    IF i > Len(Listed) THEN <<>>
    ELSE (IF mount(fs.dir, Listed[i]).status = "Ok" THEN mount(fs.dir, Listed[i]).archives
          ELSE <<>>) \o BackingsFrom(i + 1)

\* C15: mounting a well-formed ULST or INFO index succeeds, and its backings
\* are those of the listed siblings whose own mount succeeds, in the order of
\* the index; a sibling whose mount does not succeed adds nothing.
C15_CompositeSkipsFailures ==
    (IsIndex /\ mounted # <<>>) =>
        /\ mounted.status = "Ok"
        /\ mounted.archives = BackingsFrom(1)

\* the claim holds for the indexes none of whose siblings panics
Diag_C15_UnlessSiblingPanics ==
    (IsIndex /\ \A i \in 1..Len(Listed) : mount(fs.dir, Listed[i]).status # "Panic")
        => C15_CompositeSkipsFailures

\* the lines of the mounted INFO file that begin with "FILE : ", and the
\* names they carry
IsReference(line) == Len(line) >= 7 /\ SubSeq(line, 1, 7) = FilePrefix
ReferenceLines == SelectSeq(fs.dir[fs.path].lines, IsReference)
Referred == [i \in 1..Len(ReferenceLines) |-> trim(SubSeq(ReferenceLines[i], 8, Len(ReferenceLines[i])))]

RECURSIVE ReferredBackingsFrom(_)
ReferredBackingsFrom(i) ==
    IF i > Len(Referred) THEN <<>>
    ELSE (IF mount(fs.dir, Referred[i]).status = "Ok" THEN mount(fs.dir, Referred[i]).archives
          ELSE <<>>) \o ReferredBackingsFrom(i + 1)

IsInfo ==
    /\ fs # <<>> /\ fs.dir[fs.path].kind = "INFO"
    /\ \A i \in 1..Len(Referred) : mount(fs.dir, Referred[i]).status # "Panic"

\* C16: mounting an INFO file succeeds whatever its lines are, and mounts the
\* siblings named by the lines that begin with "FILE : " and no other: a
\* line that begins with "FILE" but not with "FILE : " is ignored.
C16_OnlyExactPrefixRefers ==
    (IsInfo /\ mounted # <<>>) =>
        /\ mounted.status = "Ok"
        /\ mounted.archives = ReferredBackingsFrom(1)

\* the claim holds for the INFO files in which every line that begins with
\* "FILE" begins with "FILE : "
Diag_C16_UnlessOtherFileLine ==
    (IsInfo /\ \A i \in 1..Len(fs.dir[fs.path].lines) :
        (Len(fs.dir[fs.path].lines[i]) >= 4 /\ SubSeq(fs.dir[fs.path].lines[i], 1, 4) = <<70, 73, 76, 69>>)
            => IsReference(fs.dir[fs.path].lines[i]))
        => C16_OnlyExactPrefixRefers

\* the mounted file is a MAR archive, and it was parsed
MarMounted ==
    /\ fs # <<>> /\ mounted # <<>>
    /\ fs.dir[fs.path].kind = "archive" /\ fs.dir[fs.path].f.format = "MAR"
    /\ mounted.parser = "MAR" /\ mounted.status = "Ok"

\* "M32" is part of the last component of the path of the mounted file
NameHasM32 ==
    \E i \in 1..(Len(fs.path) - 2) :
        /\ fs.path[i] = 77 /\ fs.path[i + 1] = 51 /\ fs.path[i + 2] = 50
        /\ \A j \in i..Len(fs.path) : fs.path[j] # 47

\* the bytes record k of the mounted archive stores as its name
RawName(k) == StoredName(k, VariantOf(fs.dir[fs.path].f, k))

\* the two checksums give the check values of their definitions for
\* "123456789"
Diag_C17_CheckValues ==
    /\ crc32(<<49, 50, 51, 52, 53, 54, 55, 56, 57>>) = <<52212, 14630>>
    /\ crc16_x25(<<49, 50, 51, 52, 53, 54, 55, 56, 57>>) = 36974

\* C17: the entries of a parsed MAR archive carry a cipher exactly when the
\* name of the archive contains "M32"; the cipher of the entry of record k
\* has the key 3 * CRC-16/X25 of the stored name of the record and the first
\* subkey made from the CRC-32 of that name as the iv, the size of the
\* entry, position 0, no iterator and a checkpoint for block 0 alone.
C17_CipherFromRawName ==
    MarMounted =>
        /\ \A name \in DOMAIN mounted.archives[1].files :
              (mounted.archives[1].files[name].cipher # None) = NameHasM32
        /\ NameHasM32 =>
              \A k \in 1..fs.dir[fs.path].f.n :
                  Normalized(RawName(k)) \in DOMAIN mounted.archives[1].files =>
                      mounted.archives[1].files[Normalized(RawName(k))].cipher =
                          Some([keystream |->
                                    [key |-> as_u32(3 * crc16_x25(RawName(k))),
                                     subkeys |-> (0 :> rotate_left(wrapping_add(
                                                     as_u32(3 * crc16_x25(RawName(k))),
                                                     crc32(RawName(k)))))],
                                current_iterator |-> None,
                                pos |-> 0,
                                size |-> mounted.archives[1].files[Normalized(RawName(k))].size])

\* an archive named M32.mar of two records, the first stored as "/.\d\a",
\* was parsed, and both entries carry a cipher
Witness_C17_Crypted ==
    /\ MarMounted /\ NameHasM32
    /\ fs.dir[fs.path].f.n = 2 /\ fs.dir[fs.path].f.variant = "slash"
    /\ fs.dir[fs.path].f.odd = 1
    /\ DOMAIN mounted.archives[1].files = {<<100, 47, 97>>, <<100, 47, 98>>}
    /\ \A name \in DOMAIN mounted.archives[1].files :
          mounted.archives[1].files[name].cipher # None

(***************************************************************************)
(* Properties of two KFiles on one archive.                                *)
(***************************************************************************)
\* C18: whatever two KFiles opened from one archive have done, in any order,
\* the cipher state of the archive's entry is the one it was mounted with
\* (position 0, the checkpoint of block 0 alone), each KFile is in the state
\* it has after the same operations on a KFile that is alone, the last
\* operation returned what it returns alone, and an open gives a cipher at
\* position 0.
C18_IndependentFiles ==
    pair # <<>> =>
        /\ pair.cells[1] = pair.orig
        /\ pair.orig # None =>
              pair.cells[1][1].pos = 0 /\ DOMAIN pair.cells[1][1].keystream.subkeys = {0}
        /\ \A i \in 1..2 :
              pair.files[i].open => Deref(pair.cells, pair.files[i]) = pair.files[i].alone
        /\ pair.last.op # "none" => pair.last.got = pair.last.alone
        /\ (pair.last.op = "open" /\ pair.orig # None) =>
              Deref(pair.cells, pair.files[pair.last.who]).info.cipher[1].pos = 0

\* both KFiles are open on the encrypted entry, each has done two
\* operations, they are at different positions, and the last read returned
\* bytes
Witness_C18_Interleaved ==
    /\ pair # <<>> /\ pair.orig # None
    /\ pair.files[1].open /\ pair.files[2].open
    /\ pair.files[1].ops = 2 /\ pair.files[2].ops = 2
    /\ pair.files[1].kf.pos # pair.files[2].kf.pos
    /\ pair.last.op = "read" /\ pair.last.got[1] > 0

(***************************************************************************)
(* Properties of guess_contents_folder.                                    *)
(***************************************************************************)
\* the path has "contents" somewhere in it
HasContents(p) ==
    \E i \in 1..(Len(p) - 7) : SubSeq(p, i, i + 7) = ContentsText

\* the segments of the path p end at the ends in SegmentEnds(p), and the
\* segment that ends at e starts at SegmentStart(p, e)
SegmentEnds(p) == {e \in 1..Len(p) : p[e] # 47 /\ (e = Len(p) \/ p[e + 1] = 47)}
SegmentStart(p, e) == SetMax({0} \cup {i \in 1..e : p[i] = 47}) + 1

\* the ends of the segments of p that are "contents"
ContentsSegments(p) ==
    {e \in SegmentEnds(p) : SubSeq(p, SegmentStart(p, e), e) = ContentsText}

\* the first path of the list that was gone through that has "contents"
FirstWithContents ==
    guess.list[SetMin({i \in 1..Len(guess.list) : HasContents(guess.list[i])})]

\* C19: the result is none when no listed path contains "contents"; when
\* one does, it is the prefix of the first such path of the list up to the
\* end of its first segment that is "contents".
C19_PrefixToContentsSegment ==
    (guess # <<>> /\ guess.asked) =>
        IF \A i \in 1..Len(guess.list) : ~HasContents(guess.list[i])
        THEN guess.ret = None
        ELSE /\ ContentsSegments(FirstWithContents) # {}
             /\ guess.ret = Some(SubSeq(FirstWithContents, 1,
                                        SetMin(ContentsSegments(FirstWithContents))))

\* where the first "contents" of the path p ends
FirstContentsEnd(p) ==
    SetMin({i \in 1..(Len(p) - 7) : SubSeq(p, i, i + 7) = ContentsText}) + 7

\* the claim holds when the first "contents" of the first path that has one
\* is a whole segment
Diag_C19_WholeSegment ==
    (/\ guess # <<>> /\ guess.asked
     /\ (\E i \in 1..Len(guess.list) : HasContents(guess.list[i])) =>
            FirstContentsEnd(FirstWithContents) \in ContentsSegments(FirstWithContents))
        => C19_PrefixToContentsSegment

(***************************************************************************)
(* Properties of the latency probe.                                        *)
(***************************************************************************)
\* C20: the probe never does more than 10 iterations; while it runs the
\* time is within 4 ms; when it has returned, either the time is over 4 ms,
\* and the buffer returned is the whole file from byte 0, or the time is
\* within 4 ms, 10 iterations were done and no buffer is returned.
C20_ProbeStopsAndBuffers ==
    probe # <<>> =>
        /\ probe.i <= 10
        /\ ~probe.done => probe.elapsed <= 4 /\ probe.ret = None
        /\ probe.done =>
              IF probe.elapsed > 4
              THEN probe.ret = Some([j \in 1..probe.file.len |-> DataByte(probe.file.seed, j)])
              ELSE probe.i = 10 /\ probe.ret = None

\* the probe returned a buffer after its third iteration, which had read
\* the last byte of the file
Witness_C20_SlowMedium ==
    /\ probe # <<>> /\ probe.done /\ probe.i = 3 /\ probe.ret # None
    /\ probe.file.pos = probe.file.len

\* the probe returned no buffer after 10 iterations that took 4 ms in all
Witness_C20_FastMedium ==
    /\ probe # <<>> /\ probe.done /\ probe.i = 10 /\ probe.ret = None /\ probe.elapsed = 4

(***************************************************************************)
(* Properties of the subkeys.                                              *)
(***************************************************************************)
\* bit i of a 32-bit word, bit 0 the lowest
Bit(x, i) == IF i < 16 THEN (x[2] \div (2 ^ i)) % 2 ELSE (x[1] \div (2 ^ (i - 16))) % 2

\* the carry into bit i of a + b
RECURSIVE CarryInto(_, _, _)
CarryInto(a, b, i) ==
    IF i = 0 THEN 0 ELSE (Bit(a, i - 1) + Bit(b, i - 1) + CarryInto(a, b, i - 1)) \div 2

\* bit i of a + b modulo 2^32
SumBit(a, b, i) == (Bit(a, i) + Bit(b, i) + CarryInto(a, b, i)) % 2

\* C22: the next subkey of s under k is k + s modulo 2^32 rotated left by 5
\* bits; the previous subkey of that, rotated right by 5 bits, is itself
\* plus k modulo 2^32; and it is s.
C22_PrevUndoesNext ==
    (chain # <<>> /\ chain.n > 0) =>
        /\ \A i \in 0..31 :
              Bit(chain.subkey, (i + 5) % 32) = SumBit(chain.key, chain.before, i)
        /\ \A i \in 0..31 :
              Bit(chain.subkey, (i + 5) % 32) = SumBit(chain.back, chain.key, i)
        /\ chain.back = chain.before

\* a third subkey was made with a key and a subkey whose sum passes 2^32
\* and whose low halves carry into the high ones
Witness_C22_Wraps ==
    /\ chain # <<>> /\ chain.n = 3
    /\ chain.key[2] + chain.before[2] >= 65536
    /\ chain.key[1] + chain.before[1] >= 65536

(***************************************************************************)
(* Properties of mount, call by call.                                      *)
(***************************************************************************)
\* the mount has ended: mount has returned to the program, or the process
\* has panicked or has been aborted
Ended == run # <<>> /\ run.result # None

\* the files the index file n of the directory names
Named(dir, n) ==
    IF n \notin DOMAIN dir THEN {}
    ELSE IF dir[n].kind = "ULST" THEN {dir[n].names[k] : k \in 1..Len(dir[n].names)}
    ELSE IF dir[n].kind = "INFO"
    THEN {SubSeq(dir[n].lines[k], Len(FilePrefix) + 1, Len(dir[n].lines[k])) :
             k \in 1..Len(dir[n].lines)}
    ELSE {}

\* the files mount comes to from the files of S, by at most n references
RECURSIVE Reached(_, _, _)
Reached(dir, S, n) ==
    IF n = 0 THEN S ELSE Reached(dir, S \cup UNION {Named(dir, m) : m \in S}, n - 1)

\* an index that mount comes to from the mounted path leads back to itself
Cyclic ==
    \E n \in Reached(run.dir, {run.path}, Cardinality(DOMAIN run.dir)) :
        n \in Reached(run.dir, Named(run.dir, n), Cardinality(DOMAIN run.dir))

\* C26: mount(path) terminates for every finite set of finite files: the
\* loop of cab::parse over the arcfile terminates, leaf records with a
\* negative param included, and so does the mount of an index that references
\* itself or of two indexes that reference each other.  Every mount ends;
\* an end by panic or by abort counts as an end here.
C26_MountTerminates == <>Ended

\* unless a leaf record with a negative param has been read, the mount ends
Diag_C26_EndsUnlessBackward == <>(Ended \/ run.back)

\* unless a leaf record with a negative param has been read or an index
\* leads back to itself, the mount ends and the process is not aborted
Diag_C26_ReturnsUnlessCycle ==
    <>(\/ Ended /\ run.result[1].status \in {"Ok", "Err", "Panic"}
       \/ run.back
       \/ Cyclic)

\* where no index leads back to itself and no cabinet is come to, the calls
\* taken one by one return what mount returns taken as a whole
Diag_C26_SameAsMount ==
    (Ended /\ ~Cyclic
        /\ CabName \notin Reached(run.dir, {run.path}, Cardinality(DOMAIN run.dir)))
       => run.result[1] = mount(run.dir, run.path)

\* an index that references itself ends in one of the ways a process out of
\* resources ends: the innermost mount fails, or the stack overflows
Diag_C26_CycleEndsAtTheLimit ==
    (Ended /\ Cyclic /\ ~run.back /\ run.path = IdxA /\ Named(run.dir, IdxA) = {IdxA})
       => \/ run.result[1].status = "Abort"
          \/ run.result[1] = MountOk(run.dir[IdxA].kind, init_empty)

====
